---- MODULE Spec2Model ----
(***************************************************************************)
(* A model of uniqush-conn: the redis-backed message cache (msgcache), the *)
(* server-side connection state machine (proto/server) and the paired      *)
(* authenticated connection (proto).                                       *)
(*                                                                         *)
(* Strings are TLA+ strings and a byte slice is a sequence of numbers.  A   *)
(* time.Duration is a number of milliseconds; the clock of the store       *)
(* advances in whole seconds.                                              *)
(***************************************************************************)
EXTENDS Integers, Sequences, FiniteSets, TLC

VARIABLES
    \* ---- the redis store and the callers of the message cache
    store,      \* redis keyspace: key -> [data, expireAt] (expireAt 0: no expiry)
    now,        \* the store's clock, in seconds
    index,      \* per identity: the ids recorded for it, in caching order
    nextId,     \* the id generator of CacheMessage
    call,       \* per caller: the cache operation it is running
    pending,    \* per caller: commands written to its connection, not yet processed
    replies,    \* per caller: replies received on its pooled connection
    inMulti,    \* per caller: the server-side MULTI state of its connection
    txq,        \* per caller: commands queued by the server since MULTI
    orig,       \* history: id -> what CacheMessage was given when it returned that id
    delLog,     \* history: id -> results of the completed retrieve-and-delete calls
    getLog,     \* history: id -> how many Get calls have returned its message
    lastRet,    \* history: what the step just taken returned, if it was a read
    \* ---- one server-side connection (serverConn)
    connService,        \* the connection's own service
    connUsername,       \* the connection's own username
    digestThreshold,
    compressThreshold,
    visible,
    digestFields,
    fwdChan,    \* the forward sink: "nil" until SetForwardRequestChannel
    mcache,     \* the message cache: "nil" until SetMessageCache
    dispatch,   \* the goroutine in ProcessCommand: where it is
    sender,     \* the goroutine in SendMessage: where it is
    forwarded,  \* what the consumer of the forward sink received last
    written,    \* the frame written to the client last
    lastCmd,    \* history: the command ProcessCommand returned from last, its error
    lastSend,   \* history: what the last SendMessage was given and read
    subChan,    \* the subscribe sink: "nil" until SetSubscribeRequestChan
    digestFielsLock,    \* the goroutine that holds the lock of digestFields
    arrived,    \* history: the sink commands ProcessCommand was called with, in wire order
    sunk,       \* history: the requests the consumers of the sinks received, in order
    \* ---- one transport connection and its two ends (proto)
    srvKey,     \* the key pair whose private key the server holds
    cliKey,     \* the key pair whose public key the client holds
    dialed,     \* the credentials the client dials with
    wire,       \* per direction: the frames written and not yet read
    peer,       \* per end: where it is, its KeySet, its error, its Connection
    sent,       \* history, per direction: the messages passed to WriteMessage
    recvd       \* history, per direction: the messages ReadMessage returned

cacheVars == <<store, now, index, nextId, call, pending, replies, inMulti,
               txq, orig, delLog, getLog, lastRet>>

connVars == <<connService, connUsername, digestThreshold, compressThreshold,
              visible, digestFields, fwdChan, mcache, dispatch, sender, forwarded,
              written, lastCmd, lastSend>>

protoVars == <<srvKey, cliKey, dialed, wire, peer, sent, recvd>>

\* the subscribe sink and the lock of serverConn, and the history of its sinks
sinkVars == <<subChan, digestFielsLock, arrived, sunk>>

vars == <<cacheVars, connVars, protoVars, sinkVars>>

\* what the steps of one part leave alone
notCache == <<connVars, protoVars, sinkVars>>
notConn == <<cacheVars, protoVars, sinkVars>>
notProto == <<cacheVars, connVars, sinkVars>>
besides == <<protoVars, sinkVars>>
aside == <<cacheVars, protoVars>>

\* ------------------------------------------------------------------ bounds

\* SpecCache: messages cached, retrieve-and-delete calls, seconds that pass
MaxIds == 1
MaxDels == 2
MaxTicks == 1
\* SpecCacheRead: messages cached, retrieve-and-delete calls
MaxListed == 2
MaxRemoved == 1
\* the times Get returns one message
MaxGets == 2

Callers == {"g1", "g2"}
Writer == "g1"
Reader == "g2"
Idents == {<<"srv", "usr">>, <<"srv", "bob">>}
\* time.Duration values handed to CacheMessage, in milliseconds
TTLs == {0, 1000}

\* ---------------------------------------------------------------- messages

NilMsg == [nil |-> TRUE]
NoErr == "nil"
ErrNil == "redigo: nil returned"

NoHeader == [k \in {} |-> ""]

NewMessage == [Id |-> "", Sender |-> "", SenderService |-> "",
               Header |-> NoHeader, Body |-> <<>>]

MkMsg(h, b) == [NewMessage EXCEPT !.Header = h, !.Body = b]

CacheMsgs == { MkMsg([k \in {"aa"} |-> "hell"], <<7>>),
               MkMsg(NoHeader, <<8, 9>>) }

IsNil(m) == m = NilMsg

\* proto.Message.EqContent: header and body, ignoring Id and sender
EqContent(a, b) ==
    /\ ~IsNil(a)
    /\ ~IsNil(b)
    /\ a.Header = b.Header
    /\ a.Body = b.Body

\* ------------------------------------------------------- msgcache helpers

msgKey(service, username, id) ==
    "mcache:" \o service \o ":" \o username \o ":" \o id

HeaderPairs(h) == { <<k, h[k]>> : k \in DOMAIN h }

PairsHeader(ps) == [k \in { p[1] : p \in ps } |-> (CHOOSE p \in ps : p[1] = k)[2]]

\* json.Marshal of a message: an object, as its list of members
msgMarshal(msg) ==
    << <<"Id", msg.Id>>, <<"Sender", msg.Sender>>,
       <<"SenderService", msg.SenderService>>,
       <<"Header", HeaderPairs(msg.Header)>>, <<"Body", msg.Body>> >>

Member(data, name) == (CHOOSE i \in DOMAIN data : data[i][1] = name)

\* msgUnmarshal that loses the body
msgUnmarshalNoBody(data) ==
    [Id |-> data[Member(data, "Id")][2],
     Sender |-> data[Member(data, "Sender")][2],
     SenderService |-> data[Member(data, "SenderService")][2],
     Header |-> PairsHeader(data[Member(data, "Header")][2]),
     Body |-> <<>>]

msgUnmarshal(data) ==
    [Id |-> data[Member(data, "Id")][2],
     Sender |-> data[Member(data, "Sender")][2],
     SenderService |-> data[Member(data, "SenderService")][2],
     Header |-> PairsHeader(data[Member(data, "Header")][2]),
     Body |-> data[Member(data, "Body")][2]]

\* ------------------------------------------------------------ redis server

NilReply == [t |-> "nil"]
Bulk(d) == [t |-> "bulk", v |-> d]
Status(s) == [t |-> "status", v |-> s]
IntReply(n) == [t |-> "int", v |-> n]
ErrReply(e) == [t |-> "error", v |-> e]
ArrayReply(s) == [t |-> "array", v |-> s]

Live(st, key) == key \in DOMAIN st

Without(st, key) == [k \in DOMAIN st \ {key} |-> st[k]]

\* One command executed on the keyspace st at time t: [st, reply]
ApplyCmd(st, t, cmd) ==
    CASE cmd.name = "GET" ->
           [st |-> st,
            reply |-> IF Live(st, cmd.key) THEN Bulk(st[cmd.key].data) ELSE NilReply]
      [] cmd.name = "SET" ->
           [st |-> (cmd.key :> [data |-> cmd.data, expireAt |-> 0]) @@ st,
            reply |-> Status("OK")]
      [] cmd.name = "SETEX" ->
           IF cmd.secs <= 0
           THEN [st |-> st, reply |-> ErrReply("ERR invalid expire time in setex")]
           ELSE [st |-> (cmd.key :> [data |-> cmd.data, expireAt |-> t + cmd.secs]) @@ st,
                 reply |-> Status("OK")]
      [] cmd.name = "DEL" ->
           [st |-> Without(st, cmd.key),
            reply |-> IntReply(IF Live(st, cmd.key) THEN 1 ELSE 0)]
      [] OTHER -> [st |-> st, reply |-> ErrReply("ERR unknown command")]

\* The queued commands of a transaction, executed in order with nothing between
RECURSIVE RunTx(_, _, _, _)
RunTx(st, t, q, acc) ==
    IF q = <<>> THEN [st |-> st, reply |-> ArrayReply(acc)]
    ELSE LET r == ApplyCmd(st, t, Head(q))
         IN RunTx(r.st, t, Tail(q), Append(acc, r.reply))

\* ------------------------------------------------------------ redigo client

Last(s) == s[Len(s)]

ErrorsOf(rs) == { i \in DOMAIN rs : rs[i].t = "error" }

\* conn.Do: every pending reply is read; the last one is returned, with the first
\* error reply (if any) as the error
DoResult(rs) ==
    [reply |-> Last(rs),
     err |-> IF ErrorsOf(rs) = {} THEN NoErr
             ELSE rs[CHOOSE i \in ErrorsOf(rs) : \A j \in ErrorsOf(rs) : i <= j].v]

\* redis.Values(reply, err)
redisValues(reply, err) ==
    IF err # NoErr THEN [v |-> <<>>, err |-> err]
    ELSE CASE reply.t = "array" -> [v |-> reply.v, err |-> NoErr]
           [] reply.t = "nil" -> [v |-> <<>>, err |-> ErrNil]
           [] reply.t = "error" -> [v |-> <<>>, err |-> reply.v]
           [] OTHER -> [v |-> <<>>, err |-> "redigo: unexpected type for Values"]

\* redis.Bytes(reply, err)
redisBytes(reply, err) ==
    IF err # NoErr THEN [v |-> <<>>, err |-> err]
    ELSE CASE reply.t = "bulk" -> [v |-> reply.v, err |-> NoErr]
           [] reply.t = "nil" -> [v |-> <<>>, err |-> ErrNil]
           [] reply.t = "error" -> [v |-> <<>>, err |-> reply.v]
           [] OTHER -> [v |-> <<>>, err |-> "redigo: unexpected type for Bytes"]

\* ------------------------------------------------- redisMessageCache (Set, Get, Del)

\* time.Duration.Seconds(), truncated as int64(ttl.Seconds()) truncates it
WholeSeconds(ttl) == IF ttl >= 0 THEN ttl \div 1000 ELSE -((-ttl) \div 1000)

\* Set without its no-expiry branch: every entry is given an expiry
SetRequestAlwaysExpires(service, username, id, msg, ttl) ==
    [name |-> "SETEX", key |-> msgKey(service, username, id),
     secs |-> IF WholeSeconds(ttl) > 0 THEN WholeSeconds(ttl) ELSE 1,
     data |-> msgMarshal(msg)]

\* Set: the command it sends for (service, username, id, msg, ttl)
SetRequest(service, username, id, msg, ttl) ==
    LET key == msgKey(service, username, id)
        data == msgMarshal(msg)
    IN IF ttl <= 0
       THEN [name |-> "SET", key |-> key, data |-> data]
       ELSE [name |-> "SETEX", key |-> key, secs |-> WholeSeconds(ttl), data |-> data]

\* Set: its error, from the replies to its command
SetResult(rs) == DoResult(rs).err

\* Get that removes what it has read
GetRequestThenDel(service, username, id) ==
    << [name |-> "GET", key |-> msgKey(service, username, id)],
       [name |-> "DEL", key |-> msgKey(service, username, id)] >>

\* Get: the command it sends
GetRequest(service, username, id) ==
    << [name |-> "GET", key |-> msgKey(service, username, id)] >>

\* Get: (msg, err) from the replies
GetResult(rs) ==
    LET d == DoResult(rs)
    IN IF d.err # NoErr THEN [msg |-> NilMsg, err |-> d.err]
       ELSE LET x == redisBytes(d.reply, d.err)
            IN IF x.err # NoErr THEN [msg |-> NilMsg, err |-> x.err]
               ELSE [msg |-> msgUnmarshal(x.v), err |-> NoErr]

\* Del whose DEL names another key than its GET
DelRequestWrongKey(service, username, id) ==
    << [name |-> "MULTI"], [name |-> "GET", key |-> msgKey(service, username, id)],
       [name |-> "DEL", key |-> msgKey(service, username, "")], [name |-> "EXEC"] >>

\* Del: MULTI, GET key, DEL key are buffered by Send and flushed by Do("EXEC")
DelRequest(service, username, id) ==
    LET key == msgKey(service, username, id)
    IN << [name |-> "MULTI"], [name |-> "GET", key |-> key],
          [name |-> "DEL", key |-> key], [name |-> "EXEC"] >>

\* Del: (msg, err) from the replies
DelResult(rs) ==
    LET d == DoResult(rs)
    IN IF d.err # NoErr THEN [msg |-> NilMsg, err |-> d.err]
       ELSE LET b == redisValues(d.reply, d.err)
            IN IF b.err # NoErr THEN [msg |-> NilMsg, err |-> b.err]
               ELSE IF Len(b.v) # 2 THEN [msg |-> NilMsg, err |-> NoErr]
               ELSE LET x == redisBytes(b.v[1], b.err)
                    IN IF x.err # NoErr THEN [msg |-> NilMsg, err |-> x.err]
                       ELSE IF Len(x.v) = 0 THEN [msg |-> NilMsg, err |-> NoErr]
                       ELSE [msg |-> msgUnmarshal(x.v), err |-> NoErr]

\* ------------------------------------------------------------ cache: state

Idle == [op |-> "idle"]
NoRet == [op |-> "none"]

InitCache ==
    /\ store = [k \in {} |-> 0]
    /\ now = 0
    /\ index = [i \in Idents |-> <<>>]
    /\ nextId = 1
    /\ call = [c \in Callers |-> Idle]
    /\ pending = [c \in Callers |-> <<>>]
    /\ replies = [c \in Callers |-> <<>>]
    /\ inMulti = [c \in Callers |-> FALSE]
    /\ txq = [c \in Callers |-> <<>>]
    /\ orig = [k \in {} |-> 0]
    /\ delLog = [k \in {} |-> 0]
    /\ getLog = [k \in {} |-> 0]
    /\ lastRet = NoRet

LogOf(log, t) == IF t \in DOMAIN log THEN log[t] ELSE <<>>

\* history: the number of Get calls that have returned the message cached under id
GetsOf(id) == IF id \in DOMAIN getLog THEN getLog[id] ELSE 0

\* the caller's round trip has completed: every command sent has its reply
Replied(c) == pending[c] = <<>> /\ replies[c] # <<>>

CanStart(c) == call[c] = Idle

\* --------------------------------------------------------- the redis server

\* The server reads the commands of one connection up to and including the first
\* that acts on the keyspace: MULTI and the commands queued after it only change
\* the connection's own state.  [st, pending, multi, q, rs]
RECURSIVE Serve(_, _, _, _, _, _)
Serve(st, t, cmds, multi, q, rs) ==
    IF cmds = <<>>
    THEN [st |-> st, pending |-> cmds, multi |-> multi, q |-> q, rs |-> rs]
    ELSE LET cmd == Head(cmds)
         IN IF cmd.name = "MULTI"
            THEN Serve(st, t, Tail(cmds), TRUE, q, Append(rs, Status("OK")))
            ELSE IF cmd.name = "EXEC"
            THEN IF multi
                 THEN LET r == RunTx(st, t, q, <<>>)
                      IN [st |-> r.st, pending |-> Tail(cmds), multi |-> FALSE,
                          q |-> <<>>, rs |-> Append(rs, r.reply)]
                 ELSE [st |-> st, pending |-> Tail(cmds), multi |-> multi, q |-> q,
                       rs |-> Append(rs, ErrReply("ERR EXEC without MULTI"))]
            ELSE IF multi
            THEN Serve(st, t, Tail(cmds), multi, Append(q, cmd),
                       Append(rs, Status("QUEUED")))
            ELSE LET r == ApplyCmd(st, t, cmd)
                 IN [st |-> r.st, pending |-> Tail(cmds), multi |-> multi, q |-> q,
                     rs |-> Append(rs, r.reply)]

RedisStep(c) ==
    /\ pending[c] # <<>>
    /\ LET r == Serve(store, now, pending[c], inMulti[c], txq[c], replies[c])
       IN /\ store' = r.st
          /\ pending' = [pending EXCEPT ![c] = r.pending]
          /\ inMulti' = [inMulti EXCEPT ![c] = r.multi]
          /\ txq' = [txq EXCEPT ![c] = r.q]
          /\ replies' = [replies EXCEPT ![c] = r.rs]
    \* history: when the server stored the message of a CacheMessage, and
    \* whether it found an entry for a Get or a retrieve-and-delete
    /\ call' = IF call[c].op = "CacheMessage"
               THEN [call EXCEPT ![c] = [@ EXCEPT !.at = now]]
               ELSE [call EXCEPT ![c].absent =
                       ~Live(store, msgKey(call[c].service, call[c].user,
                                           call[c].id))]
    /\ lastRet' = NoRet
    /\ UNCHANGED <<now, index, nextId, orig, delLog, getLog>>

\* One second passes: the keys whose expiry has come are gone
Tick ==
    /\ now < MaxTicks
    /\ now' = now + 1
    /\ store' = [k \in { x \in DOMAIN store :
                           store[x].expireAt = 0 \/ store[x].expireAt > now + 1 }
                   |-> store[k]]
    /\ lastRet' = NoRet
    /\ UNCHANGED <<index, nextId, call, pending, replies, inMulti, txq, orig,
                   delLog, getLog>>

\* ------------------------------------------------------ cache: operations

TripleOf(r) == <<r.service, r.user, r.id>>

\* history: a retrieve-and-delete of this triple is running or has returned
DelCalled(t) ==
    \/ LogOf(delLog, t) # <<>>
    \/ \E c \in Callers : call[c].op = "Del" /\ TripleOf(call[c]) = t

\* history: the server has acted for a retrieve-and-delete of this triple
Removed(t) ==
    \/ LogOf(delLog, t) # <<>>
    \/ \E c \in Callers : call[c].op = "Del" /\ TripleOf(call[c]) = t /\ Replied(c)

\* history: the time to live of the entry cached under id has elapsed
Expired(id) ==
    orig[id].ttl > 0 /\ now - orig[id].at >= WholeSeconds(orig[id].ttl)

RECURSIVE SumLen(_, _)
SumLen(f, S) ==
    IF S = {} THEN 0
    ELSE LET x == CHOOSE y \in S : TRUE IN Len(f[x]) + SumLen(f, S \ {x})

\* history: the number of retrieve-and-delete calls started so far
DelsStarted ==
    SumLen(delLog, DOMAIN delLog) + Cardinality({ c \in Callers : call[c].op = "Del" })

\* the (service, user, id) triples the callers ask for: those of the ids
\* CacheMessage has returned, and one that was never cached
Cached == { <<orig[id].service, orig[id].user, id>> : id \in DOMAIN orig }

Targets == Cached \cup { <<"srv", "usr", "zz">> }

\* CacheMessage(service, user, msg, ttl): a fresh id, then Set under it
CacheMessageStart(c, ident, m, ttl) ==
    /\ CanStart(c)
    /\ LET id == ToString(nextId)
       IN /\ call' = [call EXCEPT ![c] =
                        [op |-> "CacheMessage", service |-> ident[1],
                         user |-> ident[2], id |-> id, msg |-> m, ttl |-> ttl,
                         at |-> now]]
          /\ pending' = [pending EXCEPT ![c] =
                           << SetRequest(ident[1], ident[2], id,
                                         [m EXCEPT !.Id = id], ttl) >>]
    /\ replies' = [replies EXCEPT ![c] = <<>>]
    /\ nextId' = nextId + 1
    /\ lastRet' = NoRet
    /\ UNCHANGED <<store, now, index, inMulti, txq, orig, delLog, getLog>>

\* CacheMessage returns: the id is recorded in the identity's id-set
CacheMessageReturn(c) ==
    /\ call[c].op = "CacheMessage"
    /\ Replied(c)
    /\ LET r == call[c]
           err == SetResult(replies[c])
       IN /\ IF err = NoErr
             THEN /\ index' = [index EXCEPT ![<<r.service, r.user>>] = Append(@, r.id)]
                  /\ orig' = (r.id :> [service |-> r.service, user |-> r.user,
                                       msg |-> r.msg, ttl |-> r.ttl,
                                       at |-> r.at]) @@ orig
             ELSE UNCHANGED <<index, orig>>
    /\ call' = [call EXCEPT ![c] = Idle]
    /\ replies' = [replies EXCEPT ![c] = <<>>]
    /\ lastRet' = NoRet
    /\ UNCHANGED <<store, now, nextId, pending, inMulti, txq, delLog, getLog>>

\* Get(service, username, id): one GET round trip
GetStart(c, ident, id) ==
    /\ CanStart(c)
    /\ call' = [call EXCEPT ![c] =
                  [op |-> "Get", service |-> ident[1],
                   user |-> ident[2], id |-> id,
                   absent |-> ~Live(store, msgKey(ident[1], ident[2], id))]]
    /\ pending' = [pending EXCEPT ![c] = GetRequest(ident[1], ident[2], id)]
    /\ replies' = [replies EXCEPT ![c] = <<>>]
    /\ lastRet' = NoRet
    /\ UNCHANGED <<store, now, index, nextId, inMulti, txq, orig, delLog, getLog>>

GetReturn(c) ==
    /\ call[c].op = "Get"
    /\ Replied(c)
    /\ LET r == call[c]
           res == GetResult(replies[c])
       IN /\ lastRet' = [op |-> "Get", service |-> r.service, user |-> r.user,
                         id |-> r.id, msg |-> res.msg, err |-> res.err,
                         absent |-> r.absent]
          /\ getLog' = IF IsNil(res.msg) THEN getLog
                        ELSE (r.id :> (GetsOf(r.id) + 1)) @@ getLog
    /\ call' = [call EXCEPT ![c] = Idle]
    /\ replies' = [replies EXCEPT ![c] = <<>>]
    /\ UNCHANGED <<store, now, index, nextId, pending, inMulti, txq, orig, delLog>>

\* Del / GetThenDel(service, username, id): the four commands go out together
DelStart(c, ident, id) ==
    /\ CanStart(c)
    /\ call' = [call EXCEPT ![c] =
                  [op |-> "Del", service |-> ident[1],
                   user |-> ident[2], id |-> id,
                   prior |-> Len(LogOf(delLog, <<ident[1], ident[2], id>>)),
                   late |-> id \in DOMAIN orig /\ Expired(id),
                   gets |-> GetsOf(id),
                   absent |-> ~Live(store, msgKey(ident[1], ident[2], id))]]
    /\ pending' = [pending EXCEPT ![c] = DelRequest(ident[1], ident[2], id)]
    /\ replies' = [replies EXCEPT ![c] = <<>>]
    /\ lastRet' = NoRet
    /\ UNCHANGED <<store, now, index, nextId, inMulti, txq, orig, delLog, getLog>>

DelReturn(c) ==
    /\ call[c].op = "Del"
    /\ Replied(c)
    /\ LET r == call[c]
           res == DelResult(replies[c])
           t == TripleOf(r)
       IN delLog' = (t :> Append(LogOf(delLog, t),
                                 [msg |-> res.msg, err |-> res.err,
                                  prior |-> r.prior, late |-> r.late,
                                  gets |-> r.gets, absent |-> r.absent])) @@ delLog
    /\ call' = [call EXCEPT ![c] = Idle]
    /\ replies' = [replies EXCEPT ![c] = <<>>]
    /\ lastRet' = NoRet
    /\ UNCHANGED <<store, now, index, nextId, pending, inMulti, txq, orig, getLog>>

\* the ids of an identity's id-set whose entry is live, in caching order
LiveIds(service, user) ==
    SelectSeq(index[<<service, user>>],
              LAMBDA id : Live(store, msgKey(service, user, id)))

\* history: the ids CacheMessage has returned for an identity
IdsReturned(service, user) ==
    { id \in DOMAIN orig : orig[id].service = service /\ orig[id].user = user }

\* history: every message cached for the identity is kept for ever, and no
\* retrieve-and-delete has been called on any of them
NoneExpiresOrRemoved(service, user) ==
    \A id \in IdsReturned(service, user) :
        orig[id].ttl <= 0 /\ ~DelCalled(<<service, user, id>>)

\* history: the live ids of an identity
IdsLive(service, user) ==
    { id \in IdsReturned(service, user) :
        ~Expired(id) /\ ~Removed(<<service, user, id>>) }

\* GetAllIds(service, user)
GetAllIds(c, ident) ==
    /\ CanStart(c)
    /\ lastRet' = [op |-> "GetAllIds", service |-> ident[1],
                   user |-> ident[2], ids |-> LiveIds(ident[1], ident[2]),
                   err |-> NoErr,
                   want |-> IdsReturned(ident[1], ident[2]),
                   pre |-> NoneExpiresOrRemoved(ident[1], ident[2])]
    /\ UNCHANGED <<store, now, index, nextId, call, pending, replies, inMulti, txq,
                   orig, delLog, getLog>>

\* GetCachedMessages(service, user, excludeIds...)
CachedMessages(service, user, excludes) ==
    LET ids == SelectSeq(LiveIds(service, user), LAMBDA id : id \notin excludes)
    IN [i \in DOMAIN ids |-> msgUnmarshal(store[msgKey(service, user, ids[i])].data)]

GetCachedMessages(c, ident, excludes) ==
    /\ CanStart(c)
    /\ lastRet' = [op |-> "GetCachedMessages", service |-> ident[1],
                   user |-> ident[2], excludes |-> excludes,
                   msgs |-> CachedMessages(ident[1], ident[2], excludes),
                   err |-> NoErr,
                   want |-> IdsLive(ident[1], ident[2]) \ excludes]
    /\ UNCHANGED <<store, now, index, nextId, call, pending, replies, inMulti, txq,
                   orig, delLog, getLog>>

\* ------------------------------------------------ server connection: values

\* the longest body of a message handed to SendMessage
MaxBody == 4

MaxInt32 == 2147483647
MinInt32 == 0 - MaxInt32 - 1

\* int32(x) of a Go int
Int32(x) ==
    IF x > MaxInt32 THEN MinInt32 + (x - MaxInt32 - 1)
    ELSE IF x < MinInt32 THEN MaxInt32 - (MinInt32 - x - 1)
    ELSE x

ErrBadPeerImpl == "bad peer implementation"
ErrSyntax == "invalid syntax"

DigitOf(ch) ==
    CASE ch = "0" -> 0 [] ch = "1" -> 1 [] ch = "2" -> 2 [] ch = "3" -> 3
      [] ch = "4" -> 4 [] ch = "5" -> 5 [] ch = "6" -> 6 [] ch = "7" -> 7
      [] ch = "8" -> 8 [] ch = "9" -> 9 [] OTHER -> -1

\* the value of the decimal digits s[i..], -1 when one of them is no digit
RECURSIVE ParseDigits(_, _, _)
ParseDigits(s, i, acc) ==
    IF i > Len(s) THEN acc
    ELSE LET d == DigitOf(SubSeq(s, i, i))
         IN IF d < 0 THEN -1 ELSE ParseDigits(s, i + 1, acc * 10 + d)

\* strconv.Atoi: an optional sign, then at least one decimal digit
Atoi(s) ==
    LET sign == IF Len(s) > 0 /\ SubSeq(s, 1, 1) \in {"+", "-"}
                THEN SubSeq(s, 1, 1) ELSE ""
        first == IF sign = "" THEN 1 ELSE 2
        n == IF first > Len(s) THEN -1 ELSE ParseDigits(s, first, 0)
    IN IF n < 0 THEN [val |-> 0, err |-> ErrSyntax]
       ELSE [val |-> IF sign = "-" THEN 0 - n ELSE n, err |-> NoErr]

\* A Go int has 64 bits: its magnitude is kept as two limbs, hi * Limb + lo
Limb == 65536

\* the magnitude of the decimal digits s[i..], hi = -1 when one of them is no digit
RECURSIVE ParseWide(_, _, _)
ParseWide(s, i, acc) ==
    IF i > Len(s) THEN acc
    ELSE LET d == DigitOf(SubSeq(s, i, i))
             lo == acc.lo * 10 + d
         IN IF d < 0 THEN [hi |-> -1, lo |-> 0]
            ELSE ParseWide(s, i + 1, [hi |-> acc.hi * 10 + lo \div Limb,
                                      lo |-> lo % Limb])

\* strconv.Atoi where an int has 64 bits, of a string of at most 12 digits: the
\* sign and the magnitude of the int
AtoiWide(s) ==
    LET sign == IF Len(s) > 0 /\ SubSeq(s, 1, 1) \in {"+", "-"}
                THEN SubSeq(s, 1, 1) ELSE ""
        first == IF sign = "" THEN 1 ELSE 2
        n == IF first > Len(s) THEN [hi |-> -1, lo |-> 0]
             ELSE ParseWide(s, first, [hi |-> 0, lo |-> 0])
    IN IF n.hi < 0 THEN [neg |-> FALSE, hi |-> 0, lo |-> 0, err |-> ErrSyntax]
       ELSE [neg |-> sign = "-" /\ (n.hi > 0 \/ n.lo > 0), hi |-> n.hi, lo |-> n.lo,
             err |-> NoErr]

\* int32(x) of a Go int: the low 32 bits, read as a signed number
Int32Wide(x) ==
    LET h == x.hi % Limb
        low == IF h >= Limb \div 2 THEN (h - Limb) * Limb + x.lo ELSE h * Limb + x.lo
    IN IF ~x.neg THEN low
       ELSE IF low = MinInt32 THEN MinInt32 ELSE 0 - low

\* the length of the leading run of digits of s[i..]
RECURSIVE DigitRun(_, _)
DigitRun(s, i) ==
    IF i > Len(s) \/ DigitOf(SubSeq(s, i, i)) < 0 THEN 0 ELSE 1 + DigitRun(s, i + 1)

\* time.ParseDuration of "0" and of a whole number followed by one of s, m, h,
\* in milliseconds; anything else the model hands it is an error
ParseDuration(s) ==
    LET k == DigitRun(s, 1)
        unit == IF k < Len(s) THEN SubSeq(s, k + 1, Len(s)) ELSE ""
        v == IF k = 0 THEN 0 ELSE ParseDigits(SubSeq(s, 1, k), 1, 0)
    IN IF s = "0" THEN [val |-> 0, err |-> NoErr]
       ELSE IF k = 0 THEN [val |-> 0, err |-> ErrSyntax]
       ELSE IF unit = "s" THEN [val |-> v * 1000, err |-> NoErr]
       ELSE IF unit = "m" THEN [val |-> v * 60000, err |-> NoErr]
       ELSE IF unit = "h" THEN [val |-> v * 3600000, err |-> NoErr]
       ELSE [val |-> 0, err |-> ErrSyntax]

RECURSIVE HeaderSize(_, _)
HeaderSize(h, K) ==
    IF K = {} THEN 0
    ELSE LET k == CHOOSE x \in K : TRUE
         IN Len(k) + 1 + Len(h[k]) + 1 + HeaderSize(h, K \ {k})

\* proto.Message.Size: the bytes of the body and of the header's keys and values
Size(msg) == Len(msg.Body) + HeaderSize(msg.Header, DOMAIN msg.Header)

Ready == [pc |-> "idle"]
NoFrame == [kind |-> "none"]
NoRequest == [nil |-> TRUE]

\* proto.Conn.WriteMessage and proto.CommandIO.WriteCommand: one frame each
MessageFrame(msg, compress) == [kind |-> "message", msg |-> msg, compress |-> compress]
CommandFrame(cmd, compress) == [kind |-> "command", cmd |-> cmd, compress |-> compress]

\* a NewConn whose digest threshold starts at 0
NewConnDigestAll(s, u) ==
    /\ connService = s
    /\ connUsername = u
    /\ digestThreshold = 0
    /\ compressThreshold = 512
    /\ digestFields = <<>>
    /\ visible = 1
    /\ fwdChan = "nil"
    /\ mcache = "nil"
    /\ dispatch = Ready
    /\ sender = Ready
    /\ forwarded = NoRequest
    /\ written = NoFrame
    /\ lastCmd = [cmd |-> "none"]
    /\ lastSend = [op |-> "none"]

\* NewConn(cmdio, s, u, conn)
NewConn(s, u) ==
    /\ connService = s
    /\ connUsername = u
    /\ digestThreshold = -1
    /\ compressThreshold = 512
    /\ digestFields = <<>>
    /\ visible = 1
    /\ fwdChan = "nil"
    /\ mcache = "nil"
    /\ dispatch = Ready
    /\ sender = Ready
    /\ forwarded = NoRequest
    /\ written = NoFrame
    /\ lastCmd = [cmd |-> "none"]
    /\ lastSend = [op |-> "none"]

Visible == visible > 0

\* -------------------------------------------- server connection: SendMessage

\* shouldDigest whose comparison is not strict
shouldDigestAtThreshold(msg, d) ==
    [sz |-> Size(msg), sendDigest |-> d >= 0 /\ d <= Int32(Size(msg))]

\* shouldDigest with the threshold d it loaded
shouldDigest(msg, d) ==
    [sz |-> Size(msg), sendDigest |-> d >= 0 /\ d < Int32(Size(msg))]

\* a compress decision that is taken only when no digest is due
CompressUnlessDigest(sz) ==
    /\ compressThreshold > 0 /\ compressThreshold < Int32(sz)
    /\ ~(digestThreshold >= 0 /\ digestThreshold < Int32(sz))

\* c > 0 && c < int32(sz), with the compress threshold loaded at the write
Compress(sz) == compressThreshold > 0 /\ compressThreshold < Int32(sz)

writeAutoCompress(msg, sz) == MessageFrame(msg, Compress(sz))

\* a fromServer that looks at the sender's name only
fromServerAnyService(msg) ==
    Len(msg.Sender) = 0 \/ msg.Sender = connUsername

fromServer(msg) ==
    IF Len(msg.Sender) = 0 THEN TRUE
    ELSE IF msg.Sender = connUsername
         THEN Len(msg.SenderService) = 0 \/ msg.SenderService = connService
         ELSE FALSE

\* a digest header that takes every entry of the message's header and of extra
DigestHeaderAll(fields, msg, extra, header) == extra @@ msg.Header

\* the loop with its two tests exchanged: extra first, then the message's header
RECURSIVE DigestHeaderMessageLast(_, _, _, _)
DigestHeaderMessageLast(fields, msg, extra, header) ==
    IF fields = <<>> THEN header
    ELSE LET f == Head(fields)
             h1 == IF f \in DOMAIN extra THEN (f :> extra[f]) @@ header ELSE header
             h2 == IF f \in DOMAIN msg.Header
                   THEN (f :> msg.Header[f]) @@ h1 ELSE h1
         IN DigestHeaderMessageLast(Tail(fields), msg, extra, h2)

\* the loop of writeDigest over the configured fields: header first, then extra
RECURSIVE DigestHeader(_, _, _, _)
DigestHeader(fields, msg, extra, header) ==
    IF fields = <<>> THEN header
    ELSE LET f == Head(fields)
             h1 == IF f \in DOMAIN msg.Header
                   THEN (f :> msg.Header[f]) @@ header ELSE header
             h2 == IF f \in DOMAIN extra THEN (f :> extra[f]) @@ h1 ELSE h1
         IN DigestHeader(Tail(fields), msg, extra, h2)

writeDigest(msg, extra, sz, id) ==
    LET params == IF fromServer(msg) THEN <<ToString(sz), id>>
                  ELSE <<ToString(sz), id, msg.Sender, msg.SenderService>>
        header == DigestHeader(digestFields, msg, extra, NoHeader)
        dmsg == IF DOMAIN header # {}
                THEN [NewMessage EXCEPT !.Header = header] ELSE NilMsg
    IN CommandFrame([Type |-> "CMD_DIGEST", Params |-> params, Message |-> dmsg],
                    Compress(sz))

\* SendMessage up to the decision: the threshold is loaded once
SendMessageStart(msg, extra, id) ==
    /\ sender = Ready
    /\ LET r == shouldDigest(msg, digestThreshold)
       IN sender' = [pc |-> "write", msg |-> msg, extra |-> extra, id |-> id,
                     sz |-> r.sz, sendDigest |-> r.sendDigest,
                     d |-> digestThreshold]
    /\ UNCHANGED <<connService, connUsername, digestThreshold, compressThreshold,
                   visible, digestFields, fwdChan, mcache, dispatch, forwarded, written,
                   lastCmd, lastSend>>

\* SendMessage from the decision on: the digest or the message is written
SendMessageWrite ==
    /\ sender.pc = "write"
    /\ written' = IF sender.sendDigest
                  THEN writeDigest(sender.msg, sender.extra, sender.sz, sender.id)
                  ELSE writeAutoCompress([sender.msg EXCEPT !.Id = sender.id],
                                         sender.sz)
    /\ lastSend' = [op |-> "SendMessage", msg |-> sender.msg, extra |-> sender.extra,
                    id |-> sender.id, d |-> sender.d, c |-> compressThreshold,
                    fields |-> digestFields, frame |-> written']
    /\ sender' = Ready
    /\ UNCHANGED <<connService, connUsername, digestThreshold, compressThreshold,
                   visible, digestFields, fwdChan, mcache, dispatch, forwarded, lastCmd>>

\* ----------------------------------------- server connection: ProcessCommand

SetForwardRequestChannel(ch) ==
    /\ dispatch = Ready
    /\ fwdChan' = ch
    /\ UNCHANGED <<connService, connUsername, digestThreshold, compressThreshold,
                   visible, digestFields, mcache, dispatch, sender, forwarded,
                   written, lastCmd, lastSend>>

\* ProcessCommand returns err for cmd
Returns(cmd, err) ==
    /\ dispatch' = Ready
    /\ lastCmd' = [cmd |-> cmd, err |-> err]

\* ProcessCommand returns err for cmd before any request is pushed; message is
\* what cmd.Message points to at that moment (cmd is the command as handed in)
ReturnsLeaving(cmd, err, message) ==
    /\ dispatch' = Ready
    /\ lastCmd' = [cmd |-> cmd, err |-> err, message |-> message]

\* SET_VISIBILITY that hides the connection on every value but "1"
ProcessSetVisibilityOrHide(cmd) ==
    /\ dispatch = Ready
    /\ cmd.Type = "CMD_SET_VISIBILITY"
    /\ IF Len(cmd.Params) < 1
       THEN Returns(cmd, ErrBadPeerImpl) /\ UNCHANGED visible
       ELSE /\ Returns(cmd, NoErr)
            /\ visible' = IF cmd.Params[1] = "1" THEN 1 ELSE 0
    /\ UNCHANGED <<connService, connUsername, digestThreshold, compressThreshold,
                   digestFields, fwdChan, mcache, sender, forwarded, written, lastSend>>

\* case proto.CMD_SET_VISIBILITY
ProcessSetVisibility(cmd) ==
    /\ dispatch = Ready
    /\ cmd.Type = "CMD_SET_VISIBILITY"
    /\ IF Len(cmd.Params) < 1
       THEN Returns(cmd, ErrBadPeerImpl) /\ UNCHANGED visible
       ELSE /\ Returns(cmd, NoErr)
            /\ visible' = IF cmd.Params[1] = "0" THEN 0
                          ELSE IF cmd.Params[1] = "1" THEN 1 ELSE visible
    /\ UNCHANGED <<connService, connUsername, digestThreshold, compressThreshold,
                   digestFields, fwdChan, mcache, sender, forwarded, written, lastSend>>

\* the ForwardRequest that keeps the sender the peer wrote
NewForwardRequestPeerSender(cmd) ==
    LET m == IF IsNil(cmd.Message) THEN NewMessage ELSE cmd.Message
    IN [TTL |-> ParseDuration(cmd.Params[1]).val,
        Receiver |-> cmd.Params[2],
        ReceiverService |-> IF Len(cmd.Params) > 2 THEN cmd.Params[3] ELSE connService,
        Message |-> [m EXCEPT !.Id = ""]]

\* the ForwardRequest built from a FWD_REQ command with at least two params
NewForwardRequest(cmd) ==
    LET m == IF IsNil(cmd.Message) THEN NewMessage ELSE cmd.Message
    IN [TTL |-> ParseDuration(cmd.Params[1]).val,
        Receiver |-> cmd.Params[2],
        ReceiverService |-> IF Len(cmd.Params) > 2 THEN cmd.Params[3] ELSE connService,
        Message |-> [m EXCEPT !.Sender = connUsername, !.SenderService = connService,
                              !.Id = ""]]

\* a FWD_REQ case that checks the sink before the params
ProcessForwardRequestSinkFirst(cmd) ==
    /\ dispatch = Ready
    /\ cmd.Type = "CMD_FWD_REQ"
    /\ IF fwdChan = "nil"
       THEN ReturnsLeaving(cmd, NoErr, cmd.Message)
       ELSE IF Len(cmd.Params) < 2
       THEN ReturnsLeaving(cmd, ErrBadPeerImpl, cmd.Message)
       ELSE /\ dispatch' = [pc |-> "push", cmd |-> cmd, req |-> NewForwardRequest(cmd)]
            /\ UNCHANGED lastCmd
    /\ UNCHANGED <<connService, connUsername, digestThreshold, compressThreshold,
                   visible, digestFields, fwdChan, mcache, sender, forwarded, written,
                   lastSend>>

\* a FWD_REQ case that fills in the message before it looks at the sink
ProcessForwardRequestStampFirst(cmd) ==
    /\ dispatch = Ready
    /\ cmd.Type = "CMD_FWD_REQ"
    /\ IF Len(cmd.Params) < 2
       THEN ReturnsLeaving(cmd, ErrBadPeerImpl, cmd.Message)
       ELSE IF fwdChan = "nil"
       THEN ReturnsLeaving(cmd, NoErr, NewForwardRequest(cmd).Message)
       ELSE /\ dispatch' = [pc |-> "push", cmd |-> cmd, req |-> NewForwardRequest(cmd)]
            /\ UNCHANGED lastCmd
    /\ UNCHANGED <<connService, connUsername, digestThreshold, compressThreshold,
                   visible, digestFields, fwdChan, mcache, sender, forwarded, written,
                   lastSend>>

\* case proto.CMD_FWD_REQ: the request is pushed to the sink, and the push blocks
\* until the sink's consumer receives it.  The request's Message is the
\* command's own (fwdreq.Message = cmd.Message), filled in after the two tests
ProcessForwardRequest(cmd) ==
    /\ dispatch = Ready
    /\ cmd.Type = "CMD_FWD_REQ"
    /\ IF Len(cmd.Params) < 2
       THEN ReturnsLeaving(cmd, ErrBadPeerImpl, cmd.Message)
       ELSE IF fwdChan = "nil"
       THEN ReturnsLeaving(cmd, NoErr, cmd.Message)
       ELSE /\ dispatch' = [pc |-> "push", cmd |-> cmd, req |-> NewForwardRequest(cmd)]
            /\ UNCHANGED lastCmd
    /\ UNCHANGED <<connService, connUsername, digestThreshold, compressThreshold,
                   visible, digestFields, fwdChan, mcache, sender, forwarded, written,
                   lastSend>>

\* the consumer of the forward sink receives the request; ProcessCommand returns
ForwardReceive ==
    /\ dispatch.pc = "push"
    /\ forwarded' = [cmd |-> dispatch.cmd, req |-> dispatch.req]
    /\ Returns(dispatch.cmd, NoErr)
    /\ UNCHANGED <<connService, connUsername, digestThreshold, compressThreshold,
                   visible, digestFields, fwdChan, mcache, sender, written, lastSend>>

\* history: the settings a SETTING command finds when it arrives
Settings == <<digestThreshold, compressThreshold, digestFields>>

\* case proto.CMD_SETTING, to the store of the digest threshold
ProcessSetting(cmd) ==
    /\ dispatch = Ready
    /\ cmd.Type = "CMD_SETTING"
    /\ IF Len(cmd.Params) < 2
       THEN Returns(cmd, ErrBadPeerImpl) /\ UNCHANGED digestThreshold
       ELSE IF Len(cmd.Params[1]) > 0
       THEN LET d == AtoiWide(cmd.Params[1])
            IN IF d.err # NoErr
               THEN Returns(cmd, ErrBadPeerImpl) /\ UNCHANGED digestThreshold
               ELSE /\ digestThreshold' = Int32Wide(d)
                    /\ dispatch' = [pc |-> "compress", cmd |-> cmd, was |-> Settings]
                    /\ UNCHANGED lastCmd
       ELSE /\ dispatch' = [pc |-> "compress", cmd |-> cmd, was |-> Settings]
            /\ UNCHANGED <<digestThreshold, lastCmd>>
    /\ UNCHANGED <<connService, connUsername, compressThreshold, visible,
                   digestFields, fwdChan, mcache, sender, forwarded, written, lastSend>>

\* case proto.CMD_SETTING, to the store of the compress threshold
SettingCompress ==
    /\ dispatch.pc = "compress"
    /\ LET cmd == dispatch.cmd
       IN IF Len(cmd.Params[2]) > 0
          THEN LET c == AtoiWide(cmd.Params[2])
               IN IF c.err # NoErr
                  THEN Returns(cmd, ErrBadPeerImpl) /\ UNCHANGED compressThreshold
                  ELSE /\ compressThreshold' = Int32Wide(c)
                       /\ dispatch' = [dispatch EXCEPT !.pc = "fields"]
                       /\ UNCHANGED lastCmd
          ELSE /\ dispatch' = [dispatch EXCEPT !.pc = "fields"]
               /\ UNCHANGED <<compressThreshold, lastCmd>>
    /\ UNCHANGED <<connService, connUsername, digestThreshold, visible,
                   digestFields, fwdChan, mcache, sender, forwarded, written, lastSend>>

\* a SETTING that adds its fields to the configured ones
SettingFieldsAppended ==
    /\ dispatch.pc = "fields"
    /\ LET cmd == dispatch.cmd
       IN /\ digestFields' = digestFields \o SubSeq(cmd.Params, 3, Len(cmd.Params))
          /\ Returns(cmd, NoErr)
    /\ UNCHANGED <<connService, connUsername, digestThreshold, compressThreshold,
                   visible, fwdChan, mcache, sender, forwarded, written, lastSend>>

\* case proto.CMD_SETTING, the digest fields: replaced under the lock
SettingFields ==
    /\ dispatch.pc = "fields"
    /\ LET cmd == dispatch.cmd
       IN /\ digestFields' = IF Len(cmd.Params) > 2
                             THEN SubSeq(cmd.Params, 3, Len(cmd.Params))
                             ELSE digestFields
          /\ Returns(cmd, NoErr)
    /\ UNCHANGED <<connService, connUsername, digestThreshold, compressThreshold,
                   visible, fwdChan, mcache, sender, forwarded, written, lastSend>>

\* a SetMessageCache that puts the thresholds back to those of a new connection
SetMessageCacheAndDefaults(cache) ==
    /\ dispatch = Ready
    /\ mcache' = cache
    /\ digestThreshold' = -1
    /\ compressThreshold' = 512
    /\ UNCHANGED <<connService, connUsername,
                   visible, digestFields, fwdChan, dispatch, sender, forwarded,
                   written, lastCmd, lastSend>>

\* SetMessageCache(cache)
SetMessageCache(cache) ==
    /\ dispatch = Ready
    /\ mcache' = cache
    /\ UNCHANGED <<connService, connUsername, digestThreshold, compressThreshold,
                   visible, digestFields, fwdChan, dispatch, sender, forwarded,
                   written, lastCmd, lastSend>>

ErrClosed == "use of closed network connection"
ErrStore == "connection refused"
ErrMalformedCommand == "malformed command"

\* what a write to the client returns, and what a fetch from the store returns
WriteErrs == {NoErr, ErrClosed}
FetchErrs == {NoErr, ErrStore}

\* ProcessCommand returns err for cmd; out is the history of what it did on the
\* way: the frames it wrote, the errors it was handed, the thresholds in force
ReturnsAfter(cmd, err, out) ==
    /\ dispatch' = Ready
    /\ lastCmd' = [cmd |-> cmd, err |-> err, out |-> out]

Did(frames, cacheErr, sendErr) ==
    [frames |-> frames, cacheErr |-> cacheErr, sendErr |-> sendErr,
     d |-> digestThreshold, c |-> compressThreshold, mcache |-> mcache]

\* a write to the client: the frame goes out unless the write fails
Wrote(frame, werr) == written' = IF werr = NoErr THEN frame ELSE written

\* case proto.CMD_MSG_RETRIEVE, to the call of the cache's Get by the goroutine c
ProcessRetrieve(c, cmd, werr) ==
    /\ dispatch = Ready
    /\ cmd.Type = "CMD_MSG_RETRIEVE"
    /\ IF Len(cmd.Params) < 1
       THEN /\ ReturnsAfter(cmd, ErrBadPeerImpl, Did(<<>>, NoErr, NoErr))
            /\ UNCHANGED written
            /\ UNCHANGED cacheVars
       ELSE IF mcache = "nil"
       THEN LET m == [NewMessage EXCEPT !.Id = cmd.Params[1]]
                f == writeAutoCompress(m, Size(m))
            IN /\ Wrote(f, werr)
               /\ ReturnsAfter(cmd, werr,
                               Did(IF werr = NoErr THEN <<f>> ELSE <<>>, NoErr, werr))
               /\ UNCHANGED cacheVars
       ELSE /\ GetStart(c, <<connService, connUsername>>, cmd.Params[1])
            /\ dispatch' = [pc |-> "get", cmd |-> cmd]
            /\ UNCHANGED <<written, lastCmd>>
    /\ UNCHANGED <<connService, connUsername, digestThreshold, compressThreshold,
                   visible, digestFields, fwdChan, mcache, sender, forwarded,
                   lastSend>>

\* case proto.CMD_MSG_RETRIEVE, from the return of Get
RetrieveReturn(c, werr) ==
    /\ dispatch.pc = "get"
    /\ GetReturn(c)
    /\ LET cmd == dispatch.cmd
           res == GetResult(replies[c])
       IN IF res.err # NoErr
          THEN /\ ReturnsAfter(cmd, res.err, Did(<<>>, res.err, NoErr))
               /\ UNCHANGED written
          ELSE LET rmsg == IF IsNil(res.msg) THEN NewMessage ELSE res.msg
                   m == [rmsg EXCEPT !.Id = cmd.Params[1]]
                   f == writeAutoCompress(m, Size(m))
               IN /\ Wrote(f, werr)
                  /\ ReturnsAfter(cmd, werr,
                                  Did(IF werr = NoErr THEN <<f>> ELSE <<>>, NoErr, werr))
    /\ UNCHANGED <<connService, connUsername, digestThreshold, compressThreshold,
                   visible, digestFields, fwdChan, mcache, sender, forwarded,
                   lastSend>>

\* string(id) of the bytes of an id: the decimal digits, and the letter z
CharOf(b) == IF b >= 48 /\ b <= 57 THEN ToString(b - 48)
             ELSE IF b = 122 THEN "z" ELSE "?"

RECURSIVE StringOf(_)
StringOf(bytes) ==
    IF bytes = <<>> THEN "" ELSE CharOf(Head(bytes)) \o StringOf(Tail(bytes))

\* cutString: the loop leaves idx at the first zero byte, and at the last byte
\* when there is none
CutIndex(data) ==
    IF \E i \in DOMAIN data : data[i] = 0
    THEN CHOOSE i \in DOMAIN data :
            data[i] = 0 /\ \A j \in DOMAIN data : data[j] = 0 => i <= j
    ELSE Len(data)

cutString(data) ==
    IF Len(data) = 0
    THEN [str |-> <<>>, rest |-> <<>>, err |-> ErrMalformedCommand]
    ELSE [str |-> SubSeq(data, 1, CutIndex(data) - 1),
          rest |-> SubSeq(data, CutIndex(data) + 1, Len(data)),
          err |-> NoErr]

\* case proto.CMD_REQ_ALL_CACHED: the loop that cuts the body into exclusion ids
RECURSIVE ParseExcludes(_, _)
ParseExcludes(data, excludes) ==
    IF Len(data) = 0 THEN excludes
    ELSE LET r == cutString(data)
         IN IF r.err # NoErr THEN excludes
            ELSE ParseExcludes(r.rest, Append(excludes, StringOf(r.str)))

\* the exclusion list of a command whose body is never read
ExcludesOfNone(cmd) == <<>>

\* the exclusion ids of a REQUEST_ALL_CACHED command: none without a message
ExcludesOf(cmd) ==
    IF IsNil(cmd.Message) THEN <<>> ELSE ParseExcludes(cmd.Message.Body, <<>>)

\* case proto.CMD_REQ_ALL_CACHED, to the fetch of sendAllCachedMessage: what
\* sendAllCachedMessage returns is dropped
ProcessRequestAllCached(c, cmd, ferr) ==
    /\ dispatch = Ready
    /\ cmd.Type = "CMD_REQ_ALL_CACHED"
    /\ IF mcache = "nil"
       THEN /\ ReturnsAfter(cmd, NoErr, Did(<<>>, NoErr, NoErr))
            /\ UNCHANGED written
            /\ UNCHANGED cacheVars
       ELSE IF ferr # NoErr
       THEN /\ ReturnsAfter(cmd, NoErr, Did(<<>>, ferr, NoErr))
            /\ UNCHANGED written
            /\ UNCHANGED cacheVars
       ELSE LET excludes == { ExcludesOf(cmd)[i] : i \in DOMAIN ExcludesOf(cmd) }
                msgs == CachedMessages(connService, connUsername, excludes)
                got == [fetched |-> msgs, excludes |-> excludes,
                        live |-> IdsLive(connService, connUsername)]
            IN /\ GetCachedMessages(c, <<connService, connUsername>>, excludes)
               /\ UNCHANGED written
               /\ IF Len(msgs) = 0
                  THEN ReturnsAfter(cmd, NoErr,
                                    Did(<<>>, NoErr, NoErr) @@ got)
                  ELSE /\ dispatch' = [pc |-> "sendall", cmd |-> cmd, msgs |-> msgs,
                                       got |-> got, frames |-> <<>>]
                       /\ UNCHANGED lastCmd
    /\ UNCHANGED <<connService, connUsername, digestThreshold, compressThreshold,
                   visible, digestFields, fwdChan, mcache, sender, forwarded,
                   lastSend>>

\* sendAllCachedMessage: one turn of its loop over the fetched messages
SendAllCachedWrite(werr) ==
    /\ dispatch.pc = "sendall"
    /\ LET msg == Head(dispatch.msgs)
           r == shouldDigest(msg, digestThreshold)
           f == IF r.sendDigest THEN writeDigest(msg, NoHeader, r.sz, msg.Id)
                ELSE writeAutoCompress(msg, r.sz)
           frames == Append(dispatch.frames, f)
       IN IF werr # NoErr
          THEN /\ ReturnsAfter(dispatch.cmd, NoErr,
                               Did(dispatch.frames, NoErr, werr) @@ dispatch.got)
               /\ UNCHANGED written
          ELSE /\ written' = f
               /\ IF Len(dispatch.msgs) = 1
                  THEN ReturnsAfter(dispatch.cmd, NoErr,
                                    Did(frames, NoErr, NoErr) @@ dispatch.got)
                  ELSE /\ dispatch' = [dispatch EXCEPT !.msgs = Tail(@),
                                                       !.frames = frames]
                       /\ UNCHANGED lastCmd
    /\ UNCHANGED <<connService, connUsername, digestThreshold, compressThreshold,
                   visible, digestFields, fwdChan, mcache, sender, forwarded,
                   lastSend>>

\* ------------------------------------- server connection: the subscribe sink

\* NewConn: no subscribe sink, the lock of digestFields free
NoHolder == "none"

SinksAtRest ==
    /\ subChan = "nil"
    /\ digestFielsLock = NoHolder
    /\ arrived = <<>>
    /\ sunk = <<>>

SetSubscribeRequestChan(ch) ==
    /\ dispatch = Ready
    /\ subChan' = ch
    /\ UNCHANGED connVars
    /\ UNCHANGED <<digestFielsLock, arrived, sunk>>

\* a SubscribeRequest that names the sender the peer wrote into the message
NewSubscribeRequestOfPeer(cmd) ==
    [Subscribe |-> cmd.Params[1] # "0",
     Service |-> cmd.Message.SenderService,
     Username |-> cmd.Message.Sender,
     Params |-> cmd.Message.Header]

\* the SubscribeRequest built from a SUBSCRIPTION command with flag "0" or "1"
NewSubscribeRequest(cmd) ==
    [Subscribe |-> cmd.Params[1] # "0",
     Service |-> connService,
     Username |-> connUsername,
     Params |-> cmd.Message.Header]

\* a SUBSCRIPTION case that gives the request up when no consumer is waiting
ProcessSubscriptionUnsent(cmd) ==
    /\ dispatch = Ready
    /\ cmd.Type = "CMD_SUBSCRIPTION"
    /\ IF subChan = "nil"
       THEN Returns(cmd, NoErr)
       ELSE IF Len(cmd.Params) < 1 \/ IsNil(cmd.Message)
       THEN Returns(cmd, ErrBadPeerImpl)
       ELSE IF DOMAIN cmd.Message.Header = {}
       THEN Returns(cmd, ErrBadPeerImpl)
       ELSE IF cmd.Params[1] \notin {"0", "1"}
       THEN Returns(cmd, NoErr)
       ELSE \/ /\ dispatch' = [pc |-> "subscribe", cmd |-> cmd,
                                req |-> NewSubscribeRequest(cmd)]
               /\ UNCHANGED lastCmd
            \/ Returns(cmd, NoErr)
    /\ UNCHANGED <<connService, connUsername, digestThreshold, compressThreshold,
                   visible, digestFields, fwdChan, mcache, sender, forwarded, written,
                   lastSend>>
    /\ UNCHANGED <<subChan, digestFielsLock>>

\* case proto.CMD_SUBSCRIPTION: the request is pushed to the sink, and the push
\* blocks until the sink's consumer receives it
ProcessSubscription(cmd) ==
    /\ dispatch = Ready
    /\ cmd.Type = "CMD_SUBSCRIPTION"
    /\ IF subChan = "nil"
       THEN Returns(cmd, NoErr)
       ELSE IF Len(cmd.Params) < 1
       THEN Returns(cmd, ErrBadPeerImpl)
       ELSE IF IsNil(cmd.Message)
       THEN Returns(cmd, ErrBadPeerImpl)
       ELSE IF DOMAIN cmd.Message.Header = {}
       THEN Returns(cmd, ErrBadPeerImpl)
       ELSE IF cmd.Params[1] \notin {"0", "1"}
       THEN Returns(cmd, NoErr)
       ELSE /\ dispatch' = [pc |-> "subscribe", cmd |-> cmd,
                            req |-> NewSubscribeRequest(cmd)]
            /\ UNCHANGED lastCmd
    /\ UNCHANGED <<connService, connUsername, digestThreshold, compressThreshold,
                   visible, digestFields, fwdChan, mcache, sender, forwarded, written,
                   lastSend>>
    /\ UNCHANGED <<subChan, digestFielsLock>>

\* the consumer of the subscribe sink receives the request; ProcessCommand returns
SubscribeReceive ==
    /\ dispatch.pc = "subscribe"
    /\ Returns(dispatch.cmd, NoErr)
    /\ UNCHANGED <<connService, connUsername, digestThreshold, compressThreshold,
                   visible, digestFields, fwdChan, mcache, sender, forwarded, written,
                   lastSend>>
    /\ UNCHANGED <<subChan, digestFielsLock>>

\* history: ProcessCommand is called with a sink command; a consumer receives
\* the request that is being pushed
Arrives(cmd) ==
    arrived' = Append(arrived, [cmd |-> cmd, fwdChan |-> fwdChan, subChan |-> subChan])

Sinks(sink) == sunk' = Append(sunk, [sink |-> sink, req |-> dispatch.req])

\* ---------------------------- server connection: the lock of digestFields

\* the digest command of writeDigest, given the header its loop has built
DigestFrame(msg, header, sz, id) ==
    LET params == IF fromServer(msg) THEN <<ToString(sz), id>>
                  ELSE <<ToString(sz), id, msg.Sender, msg.SenderService>>
        dmsg == IF DOMAIN header # {}
                THEN [NewMessage EXCEPT !.Header = header] ELSE NilMsg
    IN CommandFrame([Type |-> "CMD_DIGEST", Params |-> params, Message |-> dmsg],
                    Compress(sz))

\* a writeDigest that ranges over digestFields without the lock
DigestLockFree ==
    /\ sender.pc = "write"
    /\ sender.sendDigest
    /\ sender' = [pc |-> "range", msg |-> sender.msg, extra |-> sender.extra,
                  id |-> sender.id, sz |-> sender.sz, d |-> sender.d,
                  fields |-> digestFields, i |-> 1, header |-> NoHeader]
    /\ UNCHANGED <<connService, connUsername, digestThreshold, compressThreshold,
                   visible, digestFields, fwdChan, mcache, dispatch, forwarded, written,
                   lastCmd, lastSend>>
    /\ UNCHANGED <<subChan, digestFielsLock, arrived, sunk>>

\* writeDigest: self.digestFielsLock.Lock(), and the range over digestFields
\* begins
DigestLock ==
    /\ sender.pc = "write"
    /\ sender.sendDigest
    /\ digestFielsLock = NoHolder
    /\ digestFielsLock' = "sender"
    /\ sender' = [pc |-> "range", msg |-> sender.msg, extra |-> sender.extra,
                  id |-> sender.id, sz |-> sender.sz, d |-> sender.d,
                  fields |-> digestFields, i |-> 1, header |-> NoHeader]
    /\ UNCHANGED <<connService, connUsername, digestThreshold, compressThreshold,
                   visible, digestFields, fwdChan, mcache, dispatch, forwarded, written,
                   lastCmd, lastSend>>
    /\ UNCHANGED <<subChan, arrived, sunk>>

\* writeDigest: one turn of the loop over the fields
DigestRange ==
    /\ sender.pc = "range"
    /\ sender.i <= Len(sender.fields)
    /\ sender' = [sender EXCEPT
                    !.header = DigestHeader(<<sender.fields[sender.i]>>, sender.msg,
                                            sender.extra, sender.header),
                    !.i = sender.i + 1]
    /\ UNCHANGED <<connService, connUsername, digestThreshold, compressThreshold,
                   visible, digestFields, fwdChan, mcache, dispatch, forwarded, written,
                   lastCmd, lastSend>>
    /\ UNCHANGED <<subChan, digestFielsLock, arrived, sunk>>

\* writeDigest: the digest is written, the deferred Unlock runs
DigestWrite ==
    /\ sender.pc = "range"
    /\ sender.i > Len(sender.fields)
    /\ written' = DigestFrame(sender.msg, sender.header, sender.sz, sender.id)
    /\ lastSend' = [op |-> "SendMessage", msg |-> sender.msg, extra |-> sender.extra,
                    id |-> sender.id, d |-> sender.d, c |-> compressThreshold,
                    fields |-> sender.fields, frame |-> written']
    /\ sender' = Ready
    /\ digestFielsLock' = IF digestFielsLock = "sender" THEN NoHolder ELSE digestFielsLock
    /\ UNCHANGED <<connService, connUsername, digestThreshold, compressThreshold,
                   visible, digestFields, fwdChan, mcache, dispatch, forwarded, lastCmd>>
    /\ UNCHANGED <<subChan, arrived, sunk>>

\* case proto.CMD_SETTING with fields: Lock(), and make([]string, n)
FieldsLock ==
    /\ dispatch.pc = "fields"
    /\ Len(dispatch.cmd.Params) > 2
    /\ digestFielsLock = NoHolder
    /\ digestFielsLock' = "dispatch"
    /\ digestFields' = [i \in 1..(Len(dispatch.cmd.Params) - 2) |-> ""]
    /\ dispatch' = [pc |-> "fill", cmd |-> dispatch.cmd, was |-> dispatch.was, i |-> 1]
    /\ UNCHANGED <<connService, connUsername, digestThreshold, compressThreshold,
                   visible, fwdChan, mcache, sender, forwarded, written, lastCmd,
                   lastSend>>
    /\ UNCHANGED <<subChan, arrived, sunk>>

\* case proto.CMD_SETTING: self.digestFields[i] = f
FieldsFill ==
    /\ dispatch.pc = "fill"
    /\ dispatch.i <= Len(digestFields)
    /\ digestFields' = [digestFields EXCEPT ![dispatch.i] = dispatch.cmd.Params[2 + dispatch.i]]
    /\ dispatch' = [dispatch EXCEPT !.i = dispatch.i + 1]
    /\ UNCHANGED <<connService, connUsername, digestThreshold, compressThreshold,
                   visible, fwdChan, mcache, sender, forwarded, written, lastCmd,
                   lastSend>>
    /\ UNCHANGED <<subChan, digestFielsLock, arrived, sunk>>

\* case proto.CMD_SETTING: ProcessCommand returns, the deferred Unlock runs
FieldsReturn ==
    /\ dispatch.pc = "fill"
    /\ dispatch.i > Len(digestFields)
    /\ Returns(dispatch.cmd, NoErr)
    /\ digestFielsLock' = NoHolder
    /\ UNCHANGED <<connService, connUsername, digestThreshold, compressThreshold,
                   visible, digestFields, fwdChan, mcache, sender, forwarded, written,
                   lastSend>>
    /\ UNCHANGED <<subChan, arrived, sunk>>

\* ------------------------------------------- paired connection (proto): values

\* messages written in one direction
MaxMsgs == 2

KeyPairs == {"k1", "k2"}
Secrets == {"s1", "s2"}
NoKeys == [nil |-> TRUE]

ErrHandshake == "handshake error"
ErrAuthFail == "authentication failed"
ErrCorrupt == "corrupted data"

\* encryption of the session secret under the public key of pair k
Encrypt(k, secret) == [under |-> k, secret |-> secret]

\* decryption that yields the same secret whatever the ciphertext holds
DecryptFixed(k, ct) ==
    IF ct.under = k THEN [secret |-> "s1", err |-> NoErr]
    ELSE [secret |-> "", err |-> ErrHandshake]

\* decryption with the private key of pair k
Decrypt(k, ct) ==
    IF ct.under = k THEN [secret |-> ct.secret, err |-> NoErr]
    ELSE [secret |-> "", err |-> ErrHandshake]

\* the key-derivation step both sides run on the secret: the KeySet
DeriveKeys(secret) ==
    [encrKey |-> <<secret, "encr">>, authKey |-> <<secret, "auth">>]

\* keySet.eq: every derived key matches
KeySetEq(a, b) ==
    /\ a # NoKeys
    /\ b # NoKeys
    /\ a.encrKey = b.encrKey
    /\ a.authKey = b.authKey

\* a frame's payload, encrypted and authenticated under a KeySet
Seal(keys, payload) ==
    [sealed |-> payload, encr |-> keys.encrKey, mac |-> <<keys.authKey, payload>>]

Open(keys, frame) ==
    IF frame.encr = keys.encrKey /\ frame.mac = <<keys.authKey, frame.sealed>>
    THEN [payload |-> frame.sealed, err |-> NoErr]
    ELSE [payload |-> <<>>, err |-> ErrCorrupt]

Deflate(data) == [deflated |-> data]
Inflate(z) == z.deflated

\* the bytes of a message in a frame, and the message of those bytes
EncodeMessage(msg) ==
    <<msg.Id, msg.Sender, msg.SenderService, HeaderPairs(msg.Header), msg.Body>>

DecodeMessage(data) ==
    [Id |-> data[1], Sender |-> data[2], SenderService |-> data[3],
     Header |-> PairsHeader(data[4]), Body |-> data[5]]

\* the frame envelope: tag, compression flag, payload
MessageEnvelope(msg, compress) ==
    [tag |-> "message", compress |-> compress,
     data |-> IF compress THEN Deflate(EncodeMessage(msg)) ELSE EncodeMessage(msg)]

EnvelopeMessage(env) ==
    DecodeMessage(IF env.compress THEN Inflate(env.data) ELSE env.data)

\* fakeAuthorizer.Authenticate with a skipped name check
AuthenticateAnyName(svc, name, token) ==
    IF svc # "service" THEN [ok |-> FALSE, err |-> NoErr]
    ELSE IF token # "token" THEN [ok |-> FALSE, err |-> NoErr]
    ELSE [ok |-> TRUE, err |-> NoErr]

\* fakeAuthorizer.Authenticate
Authenticate(svc, name, token) ==
    IF svc # "service" THEN [ok |-> FALSE, err |-> NoErr]
    ELSE IF name # "username" THEN [ok |-> FALSE, err |-> NoErr]
    ELSE IF token # "token" THEN [ok |-> FALSE, err |-> NoErr]
    ELSE [ok |-> TRUE, err |-> NoErr]

Credentials(svc, name, token) == [service |-> svc, username |-> name, token |-> token]

ValidCredentials == Credentials("service", "username", "token")

\* what Dial is called with: the right credentials, and each one field wrong
DialedWith ==
    { ValidCredentials,
      Credentials("service", "username", "wrong token"),
      Credentials("service", "wrong username", "token"),
      Credentials("wrong service", "username", "token") }

\* a reader that takes the frame written last
ReceiveNewest(stream) ==
    [frame |-> stream[Len(stream)], rest |-> SubSeq(stream, 1, Len(stream) - 1)]

\* reading one frame of a byte stream: the frames come in the order written
Receive(stream) == [frame |-> Head(stream), rest |-> Tail(stream)]

Ends == {"client", "server"}
Outgoing(e) == IF e = "client" THEN "c2s" ELSE "s2c"
Incoming(e) == IF e = "client" THEN "s2c" ELSE "c2s"

\* the two ends of a fresh transport connection: the server holds the private
\* key of pair sk, the client the public key of pair ck and the credentials cr
NewPair(sk, ck, cr) ==
    /\ srvKey = sk
    /\ cliKey = ck
    /\ dialed = cr
    /\ wire = [c2s |-> <<>>, s2c |-> <<>>]
    /\ peer = [client |-> [pc |-> "start", keys |-> NoKeys, err |-> NoErr,
                           conn |-> NilMsg],
               server |-> [pc |-> "start", keys |-> NoKeys, err |-> NoErr,
                           conn |-> NilMsg]]
    /\ sent = [c2s |-> <<>>, s2c |-> <<>>]
    /\ recvd = [c2s |-> <<>>, s2c |-> <<>>]

PairAtRest == NewPair("k1", "k1", ValidCredentials)

\* ------------------------------------------ paired connection (proto): steps

\* clientKeyExchange(pub, conn): a fresh secret goes out under the public key
clientKeyExchange(secret) ==
    /\ peer.client.pc = "start"
    /\ wire' = [wire EXCEPT !.c2s = Append(@, Encrypt(cliKey, secret))]
    /\ peer' = [peer EXCEPT !.client.pc = "keyed",
                            !.client.keys = DeriveKeys(secret)]
    /\ UNCHANGED <<srvKey, cliKey, dialed, sent, recvd>>

\* serverKeyExchange(priv, conn): no KeySet is returned on error
serverKeyExchange ==
    /\ peer.server.pc = "start"
    /\ wire.c2s # <<>>
    /\ LET r == Decrypt(srvKey, Head(wire.c2s))
       IN peer' = IF r.err = NoErr
                  THEN [peer EXCEPT !.server.pc = "keyed",
                                    !.server.keys = DeriveKeys(r.secret)]
                  ELSE [peer EXCEPT !.server.pc = "closed",
                                    !.server.err = r.err]
    /\ wire' = [wire EXCEPT !.c2s = Tail(@)]
    /\ UNCHANGED <<srvKey, cliKey, dialed, sent, recvd>>

\* Dial after the key exchange: the authentication frame goes out
Dial ==
    /\ peer.client.pc = "keyed"
    /\ wire' = [wire EXCEPT !.c2s =
                  Append(@, Seal(peer.client.keys, [tag |-> "auth", data |-> dialed]))]
    /\ peer' = [peer EXCEPT !.client.pc = "open",
                            !.client.conn = [service |-> dialed.service,
                                             username |-> dialed.username]]
    /\ UNCHANGED <<srvKey, cliKey, dialed, sent, recvd>>

\* AuthConn after the key exchange: the authentication frame is read and judged;
\* on rejection the connection is closed and no Connection value is returned
AuthConn ==
    /\ peer.server.pc = "keyed"
    /\ wire.c2s # <<>>
    /\ LET o == Open(peer.server.keys, Head(wire.c2s))
       IN IF o.err # NoErr
          THEN peer' = [peer EXCEPT !.server.pc = "closed", !.server.err = o.err]
          ELSE LET cr == o.payload.data
                   a == Authenticate(cr.service, cr.username, cr.token)
               IN IF a.err # NoErr
                  THEN peer' = [peer EXCEPT !.server.pc = "closed",
                                            !.server.err = a.err]
                  ELSE IF ~a.ok
                  THEN peer' = [peer EXCEPT !.server.pc = "closed",
                                            !.server.err = ErrAuthFail]
                  ELSE peer' = [peer EXCEPT !.server.pc = "open",
                                            !.server.conn =
                                               [service |-> cr.service,
                                                username |-> cr.username]]
    /\ wire' = [wire EXCEPT !.c2s = Tail(@)]
    /\ UNCHANGED <<srvKey, cliKey, dialed, sent, recvd>>

\* Conn.WriteMessage(msg, compress) at end e
WriteMessage(e, msg, compress) ==
    /\ peer[e].pc = "open"
    /\ wire' = [wire EXCEPT ![Outgoing(e)] =
                  Append(@, Seal(peer[e].keys, MessageEnvelope(msg, compress)))]
    /\ sent' = [sent EXCEPT ![Outgoing(e)] = Append(@, msg)]
    /\ UNCHANGED <<srvKey, cliKey, dialed, peer, recvd>>

\* Conn.ReadMessage() at end e: the next frame of the incoming stream
ReadMessage(e) ==
    /\ peer[e].pc = "open"
    /\ wire[Incoming(e)] # <<>>
    /\ LET r == Receive(wire[Incoming(e)])
           o == Open(peer[e].keys, r.frame)
       IN /\ wire' = [wire EXCEPT ![Incoming(e)] = r.rest]
          /\ IF o.err # NoErr
             THEN /\ peer' = [peer EXCEPT ![e].pc = "closed", ![e].err = o.err]
                  /\ UNCHANGED recvd
             ELSE /\ recvd' = [recvd EXCEPT ![Incoming(e)] =
                                 Append(@, EnvelopeMessage(o.payload))]
                  /\ UNCHANGED peer
    /\ UNCHANGED <<srvKey, cliKey, dialed, sent>>

\* ------------------------------------------------------ cache: specifications

\* an empty cache, one fresh server connection, one unused transport connection
InitOne == InitCache /\ NewConn("srv", "usr") /\ SinksAtRest /\ PairAtRest

\* Two callers store, retrieve-and-delete and let time pass, for one identity
NextCache ==
    \/ \E c \in Callers, m \in CacheMsgs, ttl \in TTLs :
          nextId <= MaxIds /\ CacheMessageStart(c, <<"srv", "usr">>, m, ttl)
          /\ UNCHANGED notCache
    \/ \E c \in Callers : CacheMessageReturn(c) /\ UNCHANGED notCache
    \/ \E c \in Callers, t \in Targets :
          DelsStarted < MaxDels /\ DelStart(c, <<t[1], t[2]>>, t[3])
          /\ UNCHANGED notCache
    \/ \E c \in Callers : DelReturn(c) /\ UNCHANGED notCache
    \/ \E c \in Callers : RedisStep(c) /\ UNCHANGED notCache
    \/ Tick /\ UNCHANGED notCache

SpecCache == InitOne /\ [][NextCache]_vars

\* One caller stores and removes for one identity while another reads with Get
NextCacheGet ==
    \/ \E m \in CacheMsgs, ttl \in TTLs :
          nextId <= MaxIds /\ CacheMessageStart(Writer, <<"srv", "usr">>, m, ttl)
          /\ UNCHANGED notCache
    \/ CacheMessageReturn(Writer) /\ UNCHANGED notCache
    \/ \E t \in Targets :
          DelsStarted < MaxDels /\ DelStart(Writer, <<t[1], t[2]>>, t[3])
          /\ UNCHANGED notCache
    \/ DelReturn(Writer) /\ UNCHANGED notCache
    \/ \E t \in Targets :
          GetsOf(t[3]) < MaxGets /\ GetStart(Reader, <<t[1], t[2]>>, t[3])
          /\ UNCHANGED notCache
    \/ GetReturn(Reader) /\ UNCHANGED notCache
    \/ \E c \in Callers : RedisStep(c) /\ UNCHANGED notCache
    \/ Tick /\ UNCHANGED notCache

SpecCacheGet == InitOne /\ [][NextCacheGet]_vars

\* the n-th message cached: each has its own body, every other one a header
NthMsg(n) == MkMsg(IF n % 2 = 1 THEN [k \in {"aa"} |-> "hell"] ELSE NoHeader, <<n>>)

\* the exclusion lists handed to GetCachedMessages: none, one id, every id
Excludes == { S \in SUBSET DOMAIN orig : Cardinality(S) <= 1 } \cup { DOMAIN orig }

\* One caller stores and removes for two identities while another reads
NextCacheRead ==
    \/ \E ident \in Idents, ttl \in TTLs :
          nextId <= MaxListed /\ CacheMessageStart(Writer, ident, NthMsg(nextId), ttl)
          /\ UNCHANGED notCache
    \/ CacheMessageReturn(Writer) /\ UNCHANGED notCache
    \/ \E t \in Targets \cap Cached :
          DelsStarted < MaxRemoved /\ DelStart(Writer, <<t[1], t[2]>>, t[3])
          /\ UNCHANGED notCache
    \/ DelReturn(Writer) /\ UNCHANGED notCache
    \/ \E ident \in Idents : GetAllIds(Reader, ident) /\ UNCHANGED notCache
    \/ \E ident \in Idents, ex \in Excludes :
          GetCachedMessages(Reader, ident, ex)
          /\ UNCHANGED notCache
    \/ \E c \in Callers : RedisStep(c) /\ UNCHANGED notCache
    \/ Tick /\ UNCHANGED notCache

SpecCacheRead == InitOne /\ [][NextCacheRead]_vars

\* identities whose names hold the delimiter of the key, and one that does not
KeyIdents == { <<"a:b", "c">>, <<"a", "b:c">>, <<"a", "b">> }

\* the ids asked for: the id of the message cached, and one with the delimiter
KeyIds == { "1", "c:1" }

\* an empty cache that has been handed no message, for these identities
InitKeys ==
    /\ store = [k \in {} |-> 0]
    /\ now = 0
    /\ index = [i \in KeyIdents |-> <<>>]
    /\ nextId = 1
    /\ call = [c \in Callers |-> Idle]
    /\ pending = [c \in Callers |-> <<>>]
    /\ replies = [c \in Callers |-> <<>>]
    /\ inMulti = [c \in Callers |-> FALSE]
    /\ txq = [c \in Callers |-> <<>>]
    /\ orig = [k \in {} |-> 0]
    /\ delLog = [k \in {} |-> 0]
    /\ getLog = [k \in {} |-> 0]
    /\ lastRet = NoRet
    /\ NewConn("srv", "usr")
    /\ SinksAtRest
    /\ PairAtRest

\* One caller caches a message for an identity, another reads and removes
\* entries by (service, username, id)
NextKeys ==
    \/ \E ident \in KeyIdents :
          nextId <= MaxIds /\ CacheMessageStart(Writer, ident, NthMsg(nextId), 0)
          /\ UNCHANGED notCache
    \/ CacheMessageReturn(Writer) /\ UNCHANGED notCache
    \/ \E ident \in KeyIdents, id \in KeyIds :
          GetsOf(id) < MaxGets /\ GetStart(Reader, ident, id) /\ UNCHANGED notCache
    \/ GetReturn(Reader) /\ UNCHANGED notCache
    \/ \E ident \in KeyIdents, id \in KeyIds :
          DelsStarted < MaxDels /\ DelStart(Reader, ident, id) /\ UNCHANGED notCache
    \/ DelReturn(Reader) /\ UNCHANGED notCache
    \/ \E c \in Callers : RedisStep(c) /\ UNCHANGED notCache

SpecKeys == InitKeys /\ [][NextKeys]_vars

\* the time.Duration values Set is called with, in milliseconds: negative, zero,
\* shorter than a second, whole seconds, and a second and a half
SetTTLs == {-1000, 0, 500, 1000, 1500, 2000}

\* the ids CacheMessage has handed to Set, stored or refused
Stored == { ToString(n) : n \in 1..(nextId - 1) }

\* One caller caches messages with every kind of TTL while time passes, another
\* reads them back with Get
NextTtl ==
    \/ \E ttl \in SetTTLs :
          nextId <= MaxListed
          /\ CacheMessageStart(Writer, <<"srv", "usr">>, NthMsg(nextId), ttl)
          /\ UNCHANGED notCache
    \/ CacheMessageReturn(Writer) /\ UNCHANGED notCache
    \/ \E id \in Stored :
          CanStart(Writer) /\ GetsOf(id) < MaxGets
          /\ GetStart(Reader, <<"srv", "usr">>, id) /\ UNCHANGED notCache
    \/ GetReturn(Reader) /\ UNCHANGED notCache
    \/ \E c \in Callers : RedisStep(c) /\ UNCHANGED notCache
    \/ Tick /\ UNCHANGED notCache

SpecTtl == InitOne /\ [][NextTtl]_vars

\* ------------------------------------------------------------ cache: claims

Range(f) == { f[i] : i \in DOMAIN f }

Received(log) == { i \in DOMAIN log : ~IsNil(log[i].msg) }

\* history: a retrieve-and-delete of this triple is running
DelRunning(t) == \E c \in Callers : call[c].op = "Del" /\ TripleOf(call[c]) = t

\* C1: for a message cached with TTL <= 0, of the retrieve-and-delete calls for its
\* (service, user, id) exactly one, the first, returns a message content-equal to
\* the original, and every later call returns a nil message with no error.
C1_FirstReturnsRestNilNoError ==
    \A id \in DOMAIN orig :
        orig[id].ttl <= 0 =>
            LET log == LogOf(delLog, <<orig[id].service, orig[id].user, id>>)
            IN /\ \A i \in DOMAIN log :
                    /\ ~IsNil(log[i].msg) =>
                          EqContent(log[i].msg, orig[id].msg) /\ log[i].err = NoErr
                    /\ IsNil(log[i].msg) => log[i].err = NoErr
                    /\ log[i].prior > 0 => IsNil(log[i].msg)
               /\ Cardinality(Received(log)) <= 1
               /\ (log # <<>> /\ ~DelRunning(<<orig[id].service, orig[id].user, id>>))
                     => Cardinality(Received(log)) = 1

\* C2: of the callers that run the retrieve-and-delete on the same
\* (service, user, id), under every interleaving of their store commands, at most
\* one receives the message and all the others receive nil.
C2_AtMostOneReceives ==
    \A t \in DOMAIN delLog : Cardinality(Received(delLog[t])) <= 1

\* two calls on a live triple, neither started after the other had returned,
\* have both returned: one with the message, one with nil
C2_RaceHappened ==
    \E t \in DOMAIN delLog :
        \E i, j \in DOMAIN delLog[t] :
            /\ i # j
            /\ delLog[t][i].prior = 0
            /\ delLog[t][j].prior = 0
            /\ ~IsNil(delLog[t][i].msg)
            /\ IsNil(delLog[t][j].msg)

\* C8: a retrieve-and-delete issued after the TTL of a message cached with a
\* positive TTL has elapsed returns a nil message with no error.
C8_ExpiredReturnsNilNoError ==
    \A t \in DOMAIN delLog :
        \A i \in DOMAIN delLog[t] :
            delLog[t][i].late => IsNil(delLog[t][i].msg) /\ delLog[t][i].err = NoErr

\* C11: Get and the retrieve-and-delete, called for a (service, user, id) that
\* has no live entry (never cached, already removed, or expired), return a nil
\* message together with a nil error.
C11_NotFoundIsNoError ==
    /\ (lastRet.op = "Get" /\ lastRet.absent) =>
            IsNil(lastRet.msg) /\ lastRet.err = NoErr
    /\ \A t \in DOMAIN delLog :
          \A i \in DOMAIN delLog[t] :
              delLog[t][i].absent =>
                  IsNil(delLog[t][i].msg) /\ delLog[t][i].err = NoErr

\* C9: when every message cached for an identity is kept for ever and none has
\* been removed, GetAllIds returns exactly the ids CacheMessage returned for that
\* identity, each once, and no other id.
C9_GetAllIdsExact ==
    (lastRet.op = "GetAllIds" /\ lastRet.pre) =>
        /\ lastRet.err = NoErr
        /\ Range(lastRet.ids) = lastRet.want
        /\ Len(lastRet.ids) = Cardinality(lastRet.want)

C9_TwoIdsListed ==
    /\ lastRet.op = "GetAllIds"
    /\ lastRet.pre
    /\ Cardinality(lastRet.want) = 2
    /\ Len(lastRet.ids) = 2

GotIds(msgs) == { msgs[i].Id : i \in DOMAIN msgs }

\* C10: GetCachedMessages returns exactly the live cached messages of the identity
\* whose id is not excluded, each once and content-equal to the original, and
\* changes nothing in the cache.
C10_ExclusionExact ==
    /\ [](lastRet.op = "GetCachedMessages" =>
            /\ lastRet.err = NoErr
            /\ GotIds(lastRet.msgs) = lastRet.want
            /\ Len(lastRet.msgs) = Cardinality(lastRet.want)
            /\ \A i \in DOMAIN lastRet.msgs :
                  /\ lastRet.msgs[i].Id \in DOMAIN orig
                  /\ EqContent(lastRet.msgs[i], orig[lastRet.msgs[i].Id].msg))
    /\ [][(lastRet' # lastRet /\ lastRet'.op = "GetCachedMessages")
             => (store' = store /\ index' = index)]_vars

C10_SomeExcludedSomeReturned ==
    /\ lastRet.op = "GetCachedMessages"
    /\ lastRet.excludes \cap IdsReturned(lastRet.service, lastRet.user) # {}
    /\ Len(lastRet.msgs) >= 1
    /\ lastRet.want # {}

\* ------------------------------------------- server connection: specifications

Cmd(type, params, msg) == [Type |-> type, Params |-> params, Message |-> msg]

\* the senders of the messages handed to SendMessage, as (Sender, SenderService):
\* the connection's user with no service, its own and another one, another
\* user of its service, and a service without a user
Senders ==
    { <<"usr", "">>, <<"usr", "srv">>, <<"usr", "chat">>, <<"bob", "srv">>,
      <<"", "chat">> }

\* the messages handed to SendMessage: two bodies one byte apart, a message
\* of another user with a header of two fields, and one message of each sender
SendMsgs ==
    { MkMsg(NoHeader, [i \in 1..n |-> i]) : n \in {MaxBody - 1, MaxBody} }
        \cup { [MkMsg([k \in {"title", "aa"} |-> IF k = "aa" THEN "b" ELSE "hi"], <<1>>)
                  EXCEPT !.Sender = "bob", !.SenderService = "chat"] }
        \cup { [MkMsg(NoHeader, [i \in 1..MaxBody |-> i])
                  EXCEPT !.Sender = f[1], !.SenderService = f[2]] : f \in Senders }

\* the extra map handed to SendMessage: none, or two fields
Extras == { NoHeader, [k \in {"title", "zz"} |-> IF k = "zz" THEN "q" ELSE "ex"] }

\* SETTING commands of the peer; the digest threshold it sets is the size of the
\* shorter body
SettingCmds ==
    { Cmd("CMD_SETTING", ps, NilMsg) :
        ps \in { <<ToString(MaxBody - 1)>>,
                 <<ToString(MaxBody - 1), "">>,
                 <<"-1", "2">>,
                 <<"x", "2">>,
                 <<ToString(MaxBody - 1), "y">>,
                 <<"", "", "title">> } }

VisibilityCmds ==
    { Cmd("CMD_SET_VISIBILITY", ps, NilMsg) : ps \in { <<>>, <<"0">>, <<"1">>, <<"2">> } }

\* A sender and the command dispatcher of one connection: SendMessage against
\* SETTING and SET_VISIBILITY
NextConn ==
    \/ \E msg \in SendMsgs, extra \in Extras :
          SendMessageStart(msg, extra, "7") /\ UNCHANGED notConn
    \/ SendMessageWrite /\ UNCHANGED notConn
    \/ \E cmd \in SettingCmds : ProcessSetting(cmd) /\ UNCHANGED notConn
    \/ SettingCompress /\ UNCHANGED notConn
    \/ SettingFields /\ UNCHANGED notConn
    \/ \E cmd \in VisibilityCmds : ProcessSetVisibility(cmd) /\ UNCHANGED notConn

SpecConn == InitOne /\ [][NextConn]_vars

ConnIdents == { <<"srv", "usr">>, <<"chat", "bob">> }

\* the message of a FORWARD_REQUEST: none, or one whose sender fields and id
\* the peer filled in
ForwardMsgs ==
    { NilMsg,
      [MkMsg(NoHeader, <<5>>) EXCEPT !.Id = "9", !.Sender = "eve",
                                     !.SenderService = "evil"],
      [MkMsg([k \in {"title"} |-> "hi"], <<6>>) EXCEPT !.Sender = "usr"] }

ForwardCmds ==
    { Cmd("CMD_FWD_REQ", ps, m) :
        ps \in { <<"1s">>, <<"1s", "bob">>, <<"soon", "usr", "chat">> },
        m \in ForwardMsgs }

\* The command dispatcher of one connection and the consumer of its forward sink
NextForward ==
    \/ \E ch \in {"nil", "fwd"} : SetForwardRequestChannel(ch) /\ UNCHANGED notConn
    \/ \E cmd \in ForwardCmds : ProcessForwardRequest(cmd) /\ UNCHANGED notConn
    \/ ForwardReceive /\ UNCHANGED notConn
    \/ \E cmd \in VisibilityCmds : ProcessSetVisibility(cmd) /\ UNCHANGED notConn

\* a fresh server connection of either identity
InitForward ==
    InitCache /\ PairAtRest /\ SinksAtRest /\ \E i \in ConnIdents : NewConn(i[1], i[2])

SpecForward == InitForward /\ [][NextForward]_vars

\* messages cached and retrieve-and-delete calls while the connection serves
\* retrievals
MaxServed == 3
MaxTaken == 1

\* the bytes of an id, and the body that lists ids: each id, then a zero byte
ByteOf(ch) == IF DigitOf(ch) >= 0 THEN 48 + DigitOf(ch) ELSE 122

RECURSIVE BytesOf(_)
BytesOf(str) ==
    IF str = "" THEN <<>>
    ELSE <<ByteOf(SubSeq(str, 1, 1))>> \o BytesOf(SubSeq(str, 2, Len(str)))

RECURSIVE ExcludeBody(_)
ExcludeBody(ids) ==
    IF ids = <<>> THEN <<>> ELSE BytesOf(Head(ids)) \o <<0>> \o ExcludeBody(Tail(ids))

ExcludeLists == { <<>>, <<"1">>, <<"2", "zz">> }

RetrieveCmds ==
    { Cmd("CMD_MSG_RETRIEVE", ps, NilMsg) : ps \in { <<>>, <<"1">>, <<"zz">> } }

RequestAllCmds ==
    { Cmd("CMD_REQ_ALL_CACHED", <<>>, NilMsg) }
        \cup { Cmd("CMD_REQ_ALL_CACHED", <<>>, MkMsg(NoHeader, ExcludeBody(ids))) :
                  ids \in ExcludeLists }

\* the SETTING command of the peer: both thresholds are the size of the second
\* message cached, which the first exceeds
ServeSettingCmds ==
    { Cmd("CMD_SETTING", ps, NilMsg) :
        ps \in { <<ToString(Size(NthMsg(2))), ToString(Size(NthMsg(2))), "aa">> } }

\* The command dispatcher of one connection serves retrievals from the cache
\* while another caller stores and removes messages
\* What ProcessCommand returned last and the frame written last are kept for
\* one step of the cache: by then the caller has taken the one and the client
\* has read the other
Forgets ==
    /\ lastCmd' = [cmd |-> "none"]
    /\ written' = NoFrame
    /\ UNCHANGED <<connService, connUsername, digestThreshold, compressThreshold,
                   visible, digestFields, fwdChan, mcache, dispatch, sender,
                   forwarded, lastSend>>
    /\ UNCHANGED besides

NextServe ==
    \/ \E ident \in Idents :
          nextId <= MaxServed /\ CacheMessageStart(Writer, ident, NthMsg(nextId), 0)
          /\ Forgets
    \/ CacheMessageReturn(Writer) /\ Forgets
    \/ \E t \in Cached :
          DelsStarted < MaxTaken /\ DelStart(Writer, <<t[1], t[2]>>, t[3])
          /\ Forgets
    \/ DelReturn(Writer) /\ Forgets
    \/ \E c \in Callers : RedisStep(c) /\ Forgets
    \/ \E cache \in {"redis"} :
          mcache # cache /\ SetMessageCache(cache) /\ UNCHANGED notConn
    \/ \E cmd \in ServeSettingCmds : ProcessSetting(cmd) /\ UNCHANGED notConn
    \/ SettingCompress /\ UNCHANGED notConn
    \/ SettingFields /\ UNCHANGED notConn
    \/ \E cmd \in RetrieveCmds, werr \in WriteErrs :
          /\ Len(cmd.Params) >= 1 => GetsOf(cmd.Params[1]) < MaxGets
          /\ ProcessRetrieve(Reader, cmd, werr)
          /\ UNCHANGED besides
    \/ \E werr \in WriteErrs : RetrieveReturn(Reader, werr) /\ UNCHANGED besides
    \/ \E cmd \in RequestAllCmds, ferr \in FetchErrs :
          ProcessRequestAllCached(Reader, cmd, ferr) /\ UNCHANGED besides
    \/ \E werr \in WriteErrs : SendAllCachedWrite(werr) /\ UNCHANGED notConn

SpecServe == InitOne /\ [][NextServe]_vars

\* messages cached while the connection writes frames of every kind
MaxWritten == 2

\* the SETTING commands of the peer: thresholds at the size of the smaller and
\* of the larger message, the digest switched off, the compress threshold kept
WriteSettingCmds ==
    { Cmd("CMD_SETTING", ps, NilMsg) :
        ps \in { <<ToString(Size(NthMsg(2))), ToString(Size(NthMsg(2)))>>,
                 <<"-1", "">>,
                 <<"", ToString(Size(NthMsg(1)))>> } }

\* what SendMessage wrote last is kept for one step of the cache, too
ForgetsSend ==
    /\ lastCmd' = [cmd |-> "none"]
    /\ written' = NoFrame
    /\ lastSend' = [op |-> "none"]
    /\ UNCHANGED <<connService, connUsername, digestThreshold, compressThreshold,
                   visible, digestFields, fwdChan, mcache, dispatch, sender,
                   forwarded>>
    /\ UNCHANGED besides

\* One connection writes frames of every kind: SendMessage by a sender, replies
\* to MESSAGE_RETRIEVE and REQUEST_ALL_CACHED by the command dispatcher, while
\* the peer changes the thresholds and another caller caches messages
NextWrite ==
    \/ /\ nextId <= MaxWritten
       /\ CacheMessageStart(Writer, <<connService, connUsername>>, NthMsg(nextId), 0)
       /\ ForgetsSend
    \/ CacheMessageReturn(Writer) /\ ForgetsSend
    \/ \E c \in Callers : RedisStep(c) /\ ForgetsSend
    \/ mcache = "nil" /\ SetMessageCache("redis") /\ UNCHANGED notConn
    \/ \E cmd \in WriteSettingCmds : ProcessSetting(cmd) /\ UNCHANGED notConn
    \/ SettingCompress /\ UNCHANGED notConn
    \/ SettingFields /\ UNCHANGED notConn
    \/ \E n \in 1..MaxWritten :
          SendMessageStart(NthMsg(n), NoHeader, "7") /\ UNCHANGED notConn
    \/ SendMessageWrite /\ UNCHANGED notConn
    \/ \E id \in {"1"} :
          /\ GetsOf(id) < MaxGets
          /\ ProcessRetrieve(Reader, Cmd("CMD_MSG_RETRIEVE", <<id>>, NilMsg), NoErr)
          /\ UNCHANGED besides
    \/ RetrieveReturn(Reader, NoErr) /\ UNCHANGED besides
    \/ /\ ProcessRequestAllCached(Reader, Cmd("CMD_REQ_ALL_CACHED", <<>>, NilMsg), NoErr)
       /\ UNCHANGED besides
    \/ SendAllCachedWrite(NoErr) /\ UNCHANGED notConn

SpecWrite == InitOne /\ [][NextWrite]_vars

\* the SUBSCRIPTION commands of the peer: no param, a flag, another value; no
\* message, an empty header, a header (and a sender the peer made up)
SubscriptionCmds ==
    { Cmd("CMD_SUBSCRIPTION", ps, m) :
        ps \in { <<>>, <<"0">>, <<"1">>, <<"2">> },
        m \in { NilMsg, MkMsg(NoHeader, <<>>),
                [MkMsg([k \in {"topic"} |-> "a"], <<>>)
                    EXCEPT !.Sender = "eve", !.SenderService = "evil"] } }

\* the SETTING commands of the peer: too few params, a threshold that is no
\* number in either place, and a well-formed command with a field
DispatchSettingCmds ==
    { Cmd("CMD_SETTING", ps, NilMsg) :
        ps \in { <<"3">>, <<"x", "2">>, <<"3", "y", "title">>, <<"3", "2", "title">> } }

DispatchForwardCmds ==
    { Cmd("CMD_FWD_REQ", ps, NilMsg) : ps \in { <<"1s">>, <<"1s", "bob">> } }

\* the bodies of REQUEST_ALL_CACHED: every sequence of the bytes NUL, '1' and
\* '2' up to MaxParse bytes, so that entries are terminated or not
MaxParse == 4

RECURSIVE BytesUpTo(_)
BytesUpTo(n) ==
    IF n = 0 THEN { <<>> }
    ELSE BytesUpTo(n - 1)
           \cup { Append(b, x) : b \in { y \in BytesUpTo(n - 1) : Len(y) = n - 1 },
                                 x \in {0, 49, 50} }

ParseCmds ==
    { Cmd("CMD_REQ_ALL_CACHED", <<>>, MkMsg(NoHeader, body)) : body \in BytesUpTo(MaxParse) }

\* The command dispatcher parses the exclusion list of REQUEST_ALL_CACHED
\* commands of a peer, with the cache configured or not
NextParse ==
    \/ mcache = "nil" /\ SetMessageCache("redis") /\ UNCHANGED notConn
    \/ \E cmd \in ParseCmds :
          ProcessRequestAllCached(Reader, cmd, NoErr) /\ UNCHANGED besides

SpecParse == InitOne /\ [][NextParse]_vars

DispatchRetrieveCmds ==
    { Cmd("CMD_MSG_RETRIEVE", ps, NilMsg) : ps \in { <<>>, <<"1">> } }

\* The command dispatcher of one connection is handed commands of every type,
\* well-formed and malformed, while the sinks and the cache are configured; the
\* cache holds no message.  sunk holds what the
\* subscribe sink has received since the last SUBSCRIPTION arrived
NextDispatch ==
    \/ /\ fwdChan = "nil" /\ SetForwardRequestChannel("fwd") /\ UNCHANGED notConn
    \/ /\ subChan = "nil" /\ SetSubscribeRequestChan("sub") /\ UNCHANGED aside
    \/ /\ mcache = "nil" /\ SetMessageCache("redis") /\ UNCHANGED notConn
    \/ \E cmd \in SubscriptionCmds :
          ProcessSubscription(cmd) /\ sunk' = <<>> /\ UNCHANGED arrived
          /\ UNCHANGED aside
    \/ SubscribeReceive /\ Sinks("sub") /\ UNCHANGED arrived /\ UNCHANGED aside
    \/ \E cmd \in DispatchForwardCmds : ProcessForwardRequest(cmd) /\ UNCHANGED notConn
    \/ ForwardReceive /\ UNCHANGED notConn
    \/ \E cmd \in VisibilityCmds : ProcessSetVisibility(cmd) /\ UNCHANGED notConn
    \/ \E cmd \in DispatchSettingCmds : ProcessSetting(cmd) /\ UNCHANGED notConn
    \/ SettingCompress /\ UNCHANGED notConn
    \/ SettingFields /\ UNCHANGED notConn
    \/ \E cmd \in DispatchRetrieveCmds :
          ProcessRetrieve(Reader, cmd, NoErr) /\ UNCHANGED besides
    \/ \E c \in Callers : RedisStep(c) /\ UNCHANGED notCache
    \/ RetrieveReturn(Reader, NoErr) /\ UNCHANGED besides
    \/ /\ ProcessRequestAllCached(Reader, Cmd("CMD_REQ_ALL_CACHED", <<>>, NilMsg), NoErr)
       /\ UNCHANGED besides

SpecDispatch == InitOne /\ [][NextDispatch]_vars

\* The same, while a sender calls SendMessage
NextSettings ==
    \/ NextDispatch
    \/ SendMessageStart(NthMsg(1), NoHeader, "7") /\ UNCHANGED notConn
    \/ SendMessageWrite /\ UNCHANGED notConn

SpecSettings == InitOne /\ [][NextSettings]_vars

\* the message a digest is built for: two fields that can be configured
LockMsg == MkMsg([k \in {"aa", "title"} |-> "v"], <<1>>)

\* the SETTING commands that replace the digest fields: by list A, by list B
LockSettingCmds ==
    { Cmd("CMD_SETTING", ps, NilMsg) :
        ps \in { <<"0", "", "title">>, <<"0", "2", "aa", "title">>, <<"0", "">> } }

\* A sender builds digests while the dispatcher replaces the digest fields, each
\* in the steps between which the other can run
NextLock ==
    \/ SendMessageStart(LockMsg, NoHeader, "7") /\ UNCHANGED notConn
    \/ /\ sender.pc = "write" /\ ~sender.sendDigest
       /\ SendMessageWrite /\ UNCHANGED notConn
    \/ DigestLock /\ UNCHANGED aside
    \/ DigestRange /\ UNCHANGED aside
    \/ DigestWrite /\ UNCHANGED aside
    \/ \E cmd \in LockSettingCmds : ProcessSetting(cmd) /\ UNCHANGED notConn
    \/ SettingCompress /\ UNCHANGED notConn
    \/ /\ dispatch.pc = "fields" /\ Len(dispatch.cmd.Params) <= 2
       /\ SettingFields /\ UNCHANGED notConn
    \/ FieldsLock /\ UNCHANGED aside
    \/ FieldsFill /\ UNCHANGED aside
    \/ FieldsReturn /\ UNCHANGED aside

SpecLock == InitOne /\ [][NextLock]_vars

\* the SETTING commands whose thresholds do not fit 32 bits, and some that do
WideSettingCmds ==
    { Cmd("CMD_SETTING", ps, NilMsg) :
        ps \in { <<"3", "">>, <<"4294967297", "">>, <<"4294967296", "">>,
                 <<"2147483648", "">>, <<"-4294967295", "">>, <<"-1", "4294967298">> } }

\* messages of 2 and of 5 bytes
WideMsgs == { MkMsg(NoHeader, <<1, 2>>), MkMsg(NoHeader, <<1, 2, 3, 4, 5>>) }

\* A sender and the dispatcher of one connection whose peer sets thresholds
\* beyond 32 bits
NextWide ==
    \/ \E cmd \in WideSettingCmds : ProcessSetting(cmd) /\ UNCHANGED notConn
    \/ SettingCompress /\ UNCHANGED notConn
    \/ SettingFields /\ UNCHANGED notConn
    \/ \E msg \in WideMsgs : SendMessageStart(msg, NoHeader, "7") /\ UNCHANGED notConn
    \/ SendMessageWrite /\ UNCHANGED notConn

SpecWide == InitOne /\ [][NextWide]_vars

\* the messages a digest is built for: a header of two fields, of one, of none
DigestMsgs ==
    { MkMsg([k \in {"aa", "title"} |-> IF k = "aa" THEN "b" ELSE "hi"], <<1>>),
      MkMsg([k \in {"title"} |-> "hi"], <<1, 2>>),
      MkMsg(NoHeader, <<1>>) }

\* the extra maps handed to SendMessage with them: none, one that shares a key
\* with the headers, one that shares two, one that shares none
DigestExtras ==
    { NoHeader,
      [k \in {"title", "zz"} |-> IF k = "zz" THEN "q" ELSE "ex"],
      [k \in {"aa", "title"} |-> IF k = "aa" THEN "x" ELSE "ex"],
      [k \in {"zz"} |-> "q"] }

\* SETTING commands that digest every message and configure the same fields in
\* different orders, one of them twice, and one that turns the digest off
DigestSettingCmds ==
    { Cmd("CMD_SETTING", ps, NilMsg) :
        ps \in { <<"0", "", "title", "aa">>,
                 <<"0", "", "aa", "title">>,
                 <<"0", "", "zz", "title", "zz">>,
                 <<"0", "", "title", "aa", "title">>,
                 <<"-1", "">> } }

\* A sender whose messages and extra maps overlap, and the dispatcher that
\* configures the digest fields
NextDigest ==
    \/ \E msg \in DigestMsgs, extra \in DigestExtras :
          SendMessageStart(msg, extra, "7") /\ UNCHANGED notConn
    \/ SendMessageWrite /\ UNCHANGED notConn
    \/ \E cmd \in DigestSettingCmds : ProcessSetting(cmd) /\ UNCHANGED notConn
    \/ SettingCompress /\ UNCHANGED notConn
    \/ SettingFields /\ UNCHANGED notConn

SpecDigest == InitOne /\ [][NextDigest]_vars

\* the REQUEST_ALL_CACHED commands of the peer: without and with an exclusion
UnsetRequestAllCmds ==
    { Cmd("CMD_REQ_ALL_CACHED", <<>>, NilMsg),
      Cmd("CMD_REQ_ALL_CACHED", <<>>, MkMsg(NoHeader, <<49, 0>>)) }

\* the commands that move the settings away from those of a new connection
UnsetSettingCmds ==
    { Cmd("CMD_SETTING", <<"3", "2", "title">>, NilMsg),
      Cmd("CMD_SET_VISIBILITY", <<"0">>, NilMsg) }

\* The dispatcher of one connection is handed sink and cache commands, well-formed
\* and malformed, before and after each sink and the cache are configured.
\* sunk holds what the subscribe sink has received since the last SUBSCRIPTION
\* arrived
NextUnset ==
    \/ /\ fwdChan = "nil" /\ SetForwardRequestChannel("fwd") /\ UNCHANGED notConn
    \/ /\ subChan = "nil" /\ SetSubscribeRequestChan("sub") /\ UNCHANGED aside
    \/ /\ mcache = "nil" /\ SetMessageCache("redis") /\ UNCHANGED notConn
    \/ \E cmd \in SubscriptionCmds :
          ProcessSubscription(cmd) /\ sunk' = <<>> /\ UNCHANGED arrived
          /\ UNCHANGED aside
    \/ SubscribeReceive /\ Sinks("sub") /\ UNCHANGED arrived /\ UNCHANGED aside
    \/ \E cmd \in ForwardCmds : ProcessForwardRequest(cmd) /\ UNCHANGED notConn
    \/ ForwardReceive /\ UNCHANGED notConn
    \/ \E cmd \in UnsetRequestAllCmds :
          ProcessRequestAllCached(Reader, cmd, NoErr) /\ UNCHANGED besides
    \/ \E cmd \in UnsetSettingCmds :
          /\ \/ ProcessSetting(cmd)
             \/ ProcessSetVisibility(cmd)
          /\ UNCHANGED notConn
    \/ SettingCompress /\ UNCHANGED notConn
    \/ SettingFields /\ UNCHANGED notConn

SpecUnset == InitOne /\ [][NextUnset]_vars

\* commands handed to ProcessCommand while the sinks are watched
MaxArrived == 3

SinkCmds ==
    { Cmd("CMD_FWD_REQ", ps, NilMsg) : ps \in { <<"1s">>, <<"1s", "bob">> } }
      \cup { Cmd("CMD_SUBSCRIPTION", ps, MkMsg([k \in {"topic"} |-> "a"], <<>>)) :
                 ps \in { <<"0">>, <<"1">>, <<"2">> } }
      \cup { Cmd("CMD_SET_VISIBILITY", <<"0">>, NilMsg) }

\* the dispatcher is handed the next command of the wire
ForwardArrives(cmd) ==
    /\ ProcessForwardRequest(cmd) /\ Arrives(cmd)
    /\ UNCHANGED <<subChan, digestFielsLock, sunk>> /\ UNCHANGED aside

SubscriptionArrives(cmd) ==
    /\ ProcessSubscription(cmd) /\ Arrives(cmd)
    /\ UNCHANGED sunk /\ UNCHANGED aside

VisibilityArrives(cmd) ==
    /\ ProcessSetVisibility(cmd) /\ Arrives(cmd)
    /\ UNCHANGED <<subChan, digestFielsLock, sunk>> /\ UNCHANGED aside

\* the consumer of a sink accepts the request that is being pushed
ForwardAccepted ==
    /\ ForwardReceive /\ Sinks("fwd")
    /\ UNCHANGED <<subChan, digestFielsLock, arrived>> /\ UNCHANGED aside

SubscribeAccepted ==
    /\ SubscribeReceive /\ Sinks("sub")
    /\ UNCHANGED arrived /\ UNCHANGED aside

\* The command dispatcher of one connection and the consumers of its two sinks
NextSink ==
    \/ /\ fwdChan = "nil" /\ SetForwardRequestChannel("fwd") /\ UNCHANGED notConn
    \/ /\ subChan = "nil" /\ SetSubscribeRequestChan("sub") /\ UNCHANGED aside
    \/ \E cmd \in SinkCmds :
          /\ Len(arrived) < MaxArrived
          /\ \/ ForwardArrives(cmd)
             \/ SubscriptionArrives(cmd)
             \/ VisibilityArrives(cmd)
    \/ ForwardAccepted
    \/ SubscribeAccepted

\* every request that is being pushed is accepted by its consumer in the end
SpecSink ==
    InitOne /\ [][NextSink]_vars /\ WF_vars(ForwardAccepted) /\ WF_vars(SubscribeAccepted)

\* ------------------------------------------------ server connection: claims

\* ProcessCommand has just returned from a command of this type, and has not
\* been called again
Returned(type) ==
    /\ dispatch = Ready
    /\ "err" \in DOMAIN lastCmd
    /\ lastCmd.cmd.Type = type

\* ProcessCommand has just returned from a MESSAGE_RETRIEVE for an id, having
\* called Get of the configured cache
Retrieved ==
    /\ Returned("CMD_MSG_RETRIEVE")
    /\ Len(lastCmd.cmd.Params) >= 1
    /\ lastCmd.out.mcache # "nil"

\* history: the id's entry was live for the connection's identity when Get was
\* called, and no retrieve-and-delete has been called on it
KeptFor(id) ==
    /\ lastRet.op = "Get"
    /\ ~lastRet.absent
    /\ id \in IdsReturned(connService, connUsername)
    /\ ~Expired(id)
    /\ ~DelCalled(<<connService, connUsername, id>>)

\* C12: Get never changes the cache; a MESSAGE_RETRIEVE, which reads through
\* Get, delivers the cached message each time it is repeated for a live id; and
\* after any number of Get calls the retrieve-and-delete still returns it.
C12_GetKeepsTheEntry ==
    /\ [][(pending'[Reader] # pending[Reader] \/ call'[Reader] # call[Reader])
             => (store' = store /\ index' = index)]_vars
    /\ []((Retrieved /\ KeptFor(lastCmd.cmd.Params[1]) /\ lastCmd.out.sendErr = NoErr)
            => /\ lastCmd.err = NoErr
               /\ Len(lastCmd.out.frames) = 1
               /\ lastCmd.out.frames[1].kind = "message"
               /\ EqContent(lastCmd.out.frames[1].msg, orig[lastCmd.cmd.Params[1]].msg))
    /\ [](\A t \in DOMAIN delLog :
            \A i \in DOMAIN delLog[t] :
                (delLog[t][i].gets >= 1 /\ delLog[t][i].prior = 0 /\ ~delLog[t][i].late)
                    => EqContent(delLog[t][i].msg, orig[t[3]].msg))

\* the same id was retrieved twice, then the retrieve-and-delete returned it
C12_RetrievedTwiceThenTaken ==
    \E t \in DOMAIN delLog :
        \E i \in DOMAIN delLog[t] :
            /\ GetsOf(t[3]) = 2
            /\ delLog[t][i].gets = 2
            /\ ~IsNil(delLog[t][i].msg)

IsDigest(frame) == frame.kind = "command" /\ frame.cmd.Type = "CMD_DIGEST"

\* C3: SendMessage writes a digest command instead of the message if and only if
\* the digest threshold it read is >= 0 and strictly below the message's size;
\* otherwise it writes the message itself, with Id set to the id argument.
C3_DigestIffStrictlyAbove ==
    lastSend.op = "SendMessage" =>
        LET digest == lastSend.d >= 0 /\ lastSend.d < Size(lastSend.msg)
        IN /\ IsDigest(lastSend.frame) <=> digest
           /\ ~digest => /\ lastSend.frame.kind = "message"
                         /\ lastSend.frame.msg = [lastSend.msg EXCEPT !.Id = lastSend.id]

\* a message one byte above the threshold has been written as a digest
C3_OneAboveDigested ==
    /\ lastSend.op = "SendMessage"
    /\ lastSend.d >= 0
    /\ Size(lastSend.msg) = lastSend.d + 1
    /\ IsDigest(lastSend.frame)

Stamped(cmd, req) ==
    /\ req.Message.Sender = connUsername
    /\ req.Message.SenderService = connService
    /\ req.Message.Id = ""
    /\ req.Receiver = cmd.Params[2]
    /\ req.ReceiverService = IF Len(cmd.Params) >= 3 THEN cmd.Params[3] ELSE connService

\* C4: every ForwardRequest pushed to the forward sink carries the connection's own
\* username and service as the message's sender, an empty message id, param[1] as
\* receiver, and as receiver service param[2] when given, else the connection's
\* own service.
C4_ForwardStamped ==
    /\ dispatch.pc = "push" => Stamped(dispatch.cmd, dispatch.req)
    /\ forwarded # NoRequest => Stamped(forwarded.cmd, forwarded.req)

\* the sink received a request built from a two-param command whose message the
\* peer had given a foreign sender and an id
C4_SpoofedForwarded ==
    /\ forwarded # NoRequest
    /\ ~IsNil(forwarded.cmd.Message)
    /\ forwarded.cmd.Message.Sender \notin {"", connUsername}
    /\ forwarded.cmd.Message.Id # ""
    /\ Len(forwarded.cmd.Params) = 2

\* history: the message CacheMessage was given for this id, whether it has
\* returned the id or is about to
GivenFor(id) ==
    IF id \in DOMAIN orig THEN orig[id].msg
    ELSE call[CHOOSE c \in Callers :
                 call[c].op = "CacheMessage" /\ call[c].id = id].msg

\* a frame that carries a full message with this id
FullMessage(frame, id) == frame.kind = "message" /\ frame.msg.Id = id

\* C14: for a MESSAGE_RETRIEVE with an id, whenever the cache lookup does not
\* fail the server writes exactly one full message frame, never a digest, with
\* the requested id and the content of the cached message; when no cache is
\* configured, or the cache has no entry for the id, the message written has an
\* empty header and body and carries the requested id.
C14_RetrieveWritesOneFullMessage ==
    (Returned("CMD_MSG_RETRIEVE") /\ Len(lastCmd.cmd.Params) >= 1
        /\ lastCmd.out.sendErr = NoErr) =>
        LET id == lastCmd.cmd.Params[1]
            frames == lastCmd.out.frames
            cached == lastCmd.out.mcache # "nil"
        IN /\ lastCmd.out.cacheErr = NoErr =>
                /\ Len(frames) = 1
                /\ FullMessage(frames[1], id)
                /\ (cached /\ ~IsNil(lastRet.msg)) =>
                      EqContent(frames[1].msg, GivenFor(id))
           /\ (~cached \/ lastRet.absent) =>
                /\ Len(frames) = 1
                /\ FullMessage(frames[1], id)
                /\ frames[1].msg.Header = NoHeader
                /\ frames[1].msg.Body = <<>>

\* the id a frame carries: a message's Id, a digest's second param
FrameId(frame) ==
    IF frame.kind = "message" THEN frame.msg.Id ELSE frame.cmd.Params[2]

\* the ids a REQUEST_ALL_CACHED command lists in its body, each followed by a
\* zero byte
ListedBy(cmd) ==
    IF IsNil(cmd.Message) THEN {}
    ELSE LET ids == CHOOSE l \in ExcludeLists : ExcludeBody(l) = cmd.Message.Body
         IN { ids[i] : i \in DOMAIN ids }

\* history: ids are handed out by a counter, so the lower id was cached first
CachedBefore(a, b) == Atoi(a).val < Atoi(b).val

\* ProcessCommand has just returned from a REQUEST_ALL_CACHED with a cache
\* configured, after a fetch and sends that did not fail
SentAllCached ==
    /\ Returned("CMD_REQ_ALL_CACHED")
    /\ lastCmd.out.mcache # "nil"
    /\ lastCmd.out.cacheErr = NoErr
    /\ lastCmd.out.sendErr = NoErr

\* C15: on a REQUEST_ALL_CACHED with a cache configured and exclusion ids E, the
\* frames written are exactly the live cached messages of the connection's own
\* identity whose id is not in E: one frame per message, carrying its cache id,
\* in caching order, a digest if and only if the digest threshold is >= 0 and
\* below the message's size and the content-equal full message otherwise,
\* compressed by the compress threshold.
C15_SendsLiveNotExcluded ==
    SentAllCached =>
        LET frames == lastCmd.out.frames
            want == lastCmd.out.live \ ListedBy(lastCmd.cmd)
        IN /\ Len(frames) = Cardinality(want)
           /\ { FrameId(frames[i]) : i \in DOMAIN frames } = want
           /\ \A i, j \in DOMAIN frames :
                 i < j => CachedBefore(FrameId(frames[i]), FrameId(frames[j]))
           /\ \A i \in DOMAIN frames :
                 LET id == FrameId(frames[i])
                     sz == Size(orig[id].msg)
                 IN /\ orig[id].service = connService
                    /\ orig[id].user = connUsername
                    /\ IsDigest(frames[i]) <=> (lastCmd.out.d >= 0 /\ lastCmd.out.d < sz)
                    /\ ~IsDigest(frames[i]) =>
                          /\ frames[i].kind = "message"
                          /\ EqContent(frames[i].msg, orig[id].msg)
                    /\ frames[i].compress <=> (lastCmd.out.c > 0 /\ lastCmd.out.c < sz)

\* a live message was excluded, and the two others were sent in caching order,
\* one as a full message and one as a digest
C15_OneExcludedTwoSent ==
    /\ SentAllCached
    /\ ListedBy(lastCmd.cmd) \cap lastCmd.out.live # {}
    /\ Len(lastCmd.out.frames) = 2
    /\ ~IsDigest(lastCmd.out.frames[1])
    /\ IsDigest(lastCmd.out.frames[2])


\* the digest fields in force when SendMessage wrote its digest, as a set
FieldsOf(send) == { send.fields[i] : i \in DOMAIN send.fields }

\* C16: the auxiliary message of a digest has as header exactly the entries of
\* the message's header and of the extra map whose key is a configured digest
\* field, each with the value one of the two maps gives it, and has no body;
\* when no configured field occurs in either map the digest has no auxiliary
\* message.
C16_DigestHeaderIsFiltered ==
    (lastSend.op = "SendMessage" /\ IsDigest(lastSend.frame)) =>
        LET aux == lastSend.frame.cmd.Message
            header == lastSend.msg.Header
            extra == lastSend.extra
            keys == FieldsOf(lastSend) \cap (DOMAIN header \cup DOMAIN extra)
        IN IF keys = {} THEN IsNil(aux)
           ELSE /\ ~IsNil(aux)
                /\ DOMAIN aux.Header = keys
                /\ \A k \in keys :
                      \/ k \in DOMAIN header /\ aux.Header[k] = header[k]
                      \/ k \in DOMAIN extra /\ aux.Header[k] = extra[k]
                /\ aux.Body = <<>>

\* a digest was written for a message and an extra map that both have a field
\* that is configured and a field that is not
C16_UnlistedFieldsLeftOut ==
    /\ lastSend.op = "SendMessage"
    /\ IsDigest(lastSend.frame)
    /\ ~IsNil(lastSend.frame.cmd.Message)
    /\ DOMAIN lastSend.msg.Header \ FieldsOf(lastSend) # {}
    /\ DOMAIN lastSend.extra \ FieldsOf(lastSend) # {}
    /\ DOMAIN lastSend.msg.Header \cap FieldsOf(lastSend) # {}


\* C17: a new connection has digestThreshold -1, compressThreshold 512, visible
\* true and no digest fields; the thresholds and the fields stay so until a
\* SETTING command is processed, and while the digest threshold is the initial
\* one SendMessage writes no digest whatever the message's size; Visible() stays
\* true until a SET_VISIBILITY "0" is processed.
C17_DefaultsUntilSet ==
    /\ digestThreshold = -1 /\ compressThreshold = 512
    /\ digestFields = <<>> /\ Visible
    /\ [][<<digestThreshold, compressThreshold, digestFields>>'
             # <<digestThreshold, compressThreshold, digestFields>>
           => \/ dispatch'.pc \in {"compress", "fields"}
                 /\ dispatch'.cmd.Type = "CMD_SETTING"
              \/ lastCmd' # lastCmd /\ lastCmd'.cmd.Type = "CMD_SETTING"]_vars
    /\ []((lastSend.op = "SendMessage" /\ lastSend.d = -1) => ~IsDigest(lastSend.frame))
    /\ [][(Visible /\ ~Visible')
           => (lastCmd' # lastCmd /\ lastCmd'.cmd.Type = "CMD_SET_VISIBILITY"
               /\ lastCmd'.cmd.Params = <<"0">>)]_vars

\* before any command was processed SendMessage wrote the largest message, in
\* full, and the connection is visible
C17_LargestSentInFull ==
    /\ lastCmd = [cmd |-> "none"]
    /\ dispatch = Ready
    /\ lastSend.op = "SendMessage"
    /\ \A m \in SendMsgs : Size(m) <= Size(lastSend.msg)
    /\ lastSend.frame.kind = "message"
    /\ Visible


\* the size by which a frame was judged: that of the message it carries, and
\* for a digest that of the message it stands for
JudgedSize(frame, msg) == IF IsDigest(frame) THEN Size(msg) ELSE Size(frame.msg)

\* a frame is compressed exactly when the threshold c is positive and below sz
CompressedBy(frame, c, sz) == frame.compress <=> (c > 0 /\ c < sz)

\* C18: every frame the connection writes - the message or the digest of
\* SendMessage, the reply to MESSAGE_RETRIEVE, each reply to REQUEST_ALL_CACHED -
\* is compressed if and only if the compress threshold is > 0 and below the size
\* of the message (for a digest, of the message it stands for), whatever the
\* digest threshold and whether or not the frame is a digest.
C18_CompressedIffAboveThreshold ==
    /\ lastSend.op = "SendMessage" =>
          CompressedBy(lastSend.frame, lastSend.c, Size(lastSend.msg))
    /\ (Returned("CMD_MSG_RETRIEVE") \/ Returned("CMD_REQ_ALL_CACHED")) =>
          \A i \in DOMAIN lastCmd.out.frames :
              LET f == lastCmd.out.frames[i]
              IN CompressedBy(f, lastCmd.out.c,
                              JudgedSize(f, GivenFor(FrameId(f))))

\* SendMessage wrote a digest uncompressed under a positive compress threshold,
\* and then REQUEST_ALL_CACHED was answered with a compressed full message
C18_DigestPlainMessageCompressed ==
    /\ lastSend.op = "SendMessage"
    /\ IsDigest(lastSend.frame)
    /\ ~lastSend.frame.compress
    /\ lastSend.c > 0
    /\ Returned("CMD_REQ_ALL_CACHED")
    /\ \E i \in DOMAIN lastCmd.out.frames :
          /\ ~IsDigest(lastCmd.out.frames[i])
          /\ lastCmd.out.frames[i].compress


\* C19: when the cache fetch, or a send that follows it, fails while a
\* MESSAGE_RETRIEVE or a REQUEST_ALL_CACHED is processed, ProcessCommand returns
\* that error to its caller; after a failed fetch nothing is fetched again, so
\* nothing is written.
C19_CacheErrorReturned ==
    (Returned("CMD_MSG_RETRIEVE") \/ Returned("CMD_REQ_ALL_CACHED")) =>
        /\ lastCmd.out.cacheErr # NoErr =>
              /\ lastCmd.err = lastCmd.out.cacheErr
              /\ lastCmd.out.frames = <<>>
        /\ lastCmd.out.sendErr # NoErr => lastCmd.err = lastCmd.out.sendErr


\* the message comes from the connection's own identity or from the server: it
\* names no sender, or the connection's user with no service or with its own
OwnOrServer(msg) ==
    \/ msg.Sender = ""
    \/ msg.Sender = connUsername /\ msg.SenderService \in {"", connService}

\* C20: every digest SendMessage writes has the params [decimal size of the
\* message, id] when the message comes from the connection's own identity or
\* the server, and [size, id, Sender, SenderService] otherwise; own or server
\* means Sender is empty, or Sender is the connection's username and
\* SenderService is empty or the connection's service.
C20_DigestParams ==
    (lastSend.op = "SendMessage" /\ IsDigest(lastSend.frame)) =>
        LET m == lastSend.msg
            params == lastSend.frame.cmd.Params
        IN /\ Len(params) \in {2, 4}
           /\ params[1] = ToString(Size(m))
           /\ Atoi(params[1]).val = Size(m)
           /\ params[2] = lastSend.id
           /\ Len(params) = 2 <=> OwnOrServer(m)
           /\ Len(params) = 4 => (params[3] = m.Sender /\ params[4] = m.SenderService)

\* a digest was written for a message of the connection's user sent through
\* another service: it names the sender
C20_OwnNameOtherService ==
    /\ lastSend.op = "SendMessage"
    /\ IsDigest(lastSend.frame)
    /\ lastSend.msg.Sender = connUsername
    /\ lastSend.msg.SenderService \notin {"", connService}
    /\ Len(lastSend.frame.cmd.Params) = 4


\* a threshold param a SETTING command accepts: empty, or a decimal number
Numeric(p) == Atoi(p).err = NoErr

WellFormed(cmd) ==
    /\ Len(cmd.Params) >= 2
    /\ \A i \in 1..2 : cmd.Params[i] = "" \/ Numeric(cmd.Params[i])

\* a step in which ProcessCommand returns from a command of this type
Returning(type) == lastCmd' # lastCmd /\ lastCmd'.cmd.Type = type

\* C21: a well-formed SETTING command returns no error and leaves the digest
\* threshold at param[0] when that is non-empty and as it was when empty, the
\* compress threshold at param[1] likewise, and the digest fields at exactly
\* params[2..] in order when there are more than two params and as they were
\* when there are two.
C21_SettingSetsWhatIsGiven ==
    [][(Returning("CMD_SETTING") /\ WellFormed(lastCmd'.cmd)) =>
          LET ps == lastCmd'.cmd.Params
          IN /\ dispatch.pc = "fields"
             /\ lastCmd'.err = NoErr
             /\ digestThreshold' = IF ps[1] = "" THEN dispatch.was[1]
                                   ELSE Atoi(ps[1]).val
             /\ compressThreshold' = IF ps[2] = "" THEN dispatch.was[2]
                                     ELSE Atoi(ps[2]).val
             /\ digestFields' = IF Len(ps) > 2 THEN SubSeq(ps, 3, Len(ps))
                                ELSE dispatch.was[3]]_vars

\* a SETTING with empty thresholds and one field has returned: the digest
\* threshold an earlier SETTING had set is kept, the field is the only one
C21_FieldsReplacedThresholdsKept ==
    /\ Returned("CMD_SETTING")
    /\ lastCmd.cmd.Params = <<"", "", "title">>
    /\ digestThreshold = MaxBody - 1
    /\ compressThreshold # 512
    /\ digestFields = <<"title">>


\* a command the peer must not send: too few params, or a threshold that is
\* neither empty nor a number
Malformed(cmd) ==
    CASE cmd.Type = "CMD_SET_VISIBILITY" -> Len(cmd.Params) < 1
      [] cmd.Type = "CMD_FWD_REQ" -> Len(cmd.Params) < 2
      [] cmd.Type = "CMD_SETTING" -> ~WellFormed(cmd)
      [] cmd.Type = "CMD_MSG_RETRIEVE" -> Len(cmd.Params) < 1
      [] OTHER -> FALSE

\* C22: ProcessCommand returns a protocol error for SET_VISIBILITY without
\* param, FORWARD_REQUEST with fewer than 2 params, SETTING with fewer than 2
\* params or a non-empty non-numeric threshold, and MESSAGE_RETRIEVE without
\* param; the call pushes nothing to a sink and writes no frame.
C22_MalformedIsProtocolError ==
    /\ [][(lastCmd' # lastCmd /\ Malformed(lastCmd'.cmd)) =>
             /\ lastCmd'.err = ErrBadPeerImpl
             /\ dispatch.pc \in {"idle", "compress"}
             /\ written' = written
             /\ forwarded' = forwarded
             /\ sunk' = sunk]_vars
    /\ [][(dispatch'.pc \in {"push", "subscribe", "get"} /\ dispatch' # dispatch) =>
             ~Malformed(dispatch'.cmd)]_vars
    /\ [][(dispatch.pc = "compress" /\ dispatch' # dispatch) =>
             (written' = written /\ forwarded' = forwarded)]_vars

\* with both sinks and a cache configured, a SETTING whose second threshold is
\* no number has returned the protocol error
C22_SecondThresholdRejected ==
    /\ Returned("CMD_SETTING")
    /\ lastCmd.cmd.Params[1] = "3"
    /\ Len(lastCmd.cmd.Params) > 2
    /\ lastCmd.err = ErrBadPeerImpl
    /\ fwdChan # "nil" /\ subChan # "nil" /\ mcache # "nil"


\* a SUBSCRIPTION command with a param and a message that has a header
HasHeader(cmd) ==
    /\ Len(cmd.Params) >= 1
    /\ ~IsNil(cmd.Message)
    /\ DOMAIN cmd.Message.Header # {}

\* the one request the subscribe sink received for cmd
OneRequest(cmd) ==
    <<[sink |-> "sub",
       req |-> [Subscribe |-> cmd.Params[1] = "1", Service |-> connService,
                Username |-> connUsername, Params |-> cmd.Message.Header]]>>

\* C23 as stated: with a subscribe sink configured, every SUBSCRIPTION command
\* with at least one param and a message with a non-empty header pushes exactly
\* one SubscribeRequest.
C23_EveryFlagPushes ==
    [][(Returning("CMD_SUBSCRIPTION") /\ subChan # "nil" /\ HasHeader(lastCmd'.cmd)) =>
          Len(sunk') = 1]_vars

\* C23, amended: with a subscribe sink configured, a SUBSCRIPTION command with a
\* message with a non-empty header and first param "1" or "0" pushes exactly one
\* SubscribeRequest, whose Params are the header, whose Service and Username
\* are the connection's own and whose Subscribe flag is true for "1" and false
\* for "0"; with any other first param it pushes nothing and returns no error;
\* with no param, no message or an empty header it returns the protocol error
\* and pushes nothing.
C23_FlaggedSubscriptionPushesOne ==
    /\ [][(Returning("CMD_SUBSCRIPTION") /\ subChan # "nil") =>
             LET cmd == lastCmd'.cmd
             IN IF ~HasHeader(cmd)
                THEN lastCmd'.err = ErrBadPeerImpl /\ dispatch = Ready /\ sunk' = <<>>
                ELSE IF cmd.Params[1] \notin {"0", "1"}
                THEN lastCmd'.err = NoErr /\ dispatch = Ready /\ sunk' = <<>>
                ELSE /\ lastCmd'.err = NoErr
                     /\ dispatch.pc = "subscribe"
                     /\ sunk = <<>>
                     /\ sunk' = OneRequest(cmd)]_vars
    /\ [][Len(sunk') > Len(sunk) =>
             (dispatch.pc = "subscribe" /\ dispatch'.pc = "idle"
                /\ lastCmd'.cmd = dispatch.cmd)]_vars
    /\ [][(dispatch'.pc = "subscribe" /\ dispatch.pc # "subscribe") =>
             (subChan # "nil" /\ HasHeader(dispatch'.cmd)
                /\ dispatch'.cmd.Params[1] \in {"0", "1"} /\ sunk' = <<>>)]_vars

\* the sink has received an unsubscribe request for the connection's own
\* identity, from a message in which the peer named another sender
C23_UnsubscribePushed ==
    /\ Returned("CMD_SUBSCRIPTION")
    /\ lastCmd.cmd.Params = <<"0">>
    /\ Len(sunk) = 1
    /\ lastCmd.cmd.Message.Sender = "eve"
    /\ ~sunk[1].req.Subscribe
    /\ sunk[1].req.Username = "usr"

\* the ids of the entries of a body that end in a NUL byte, up to the first
\* entry that does not
RECURSIVE TerminatedIds(_)
TerminatedIds(data) ==
    IF \A i \in DOMAIN data : data[i] # 0 THEN {}
    ELSE LET n == CHOOSE i \in DOMAIN data :
                     data[i] = 0 /\ \A j \in 1..(i - 1) : data[j] # 0
         IN {StringOf(SubSeq(data, 1, n - 1))}
               \cup TerminatedIds(SubSeq(data, n + 1, Len(data)))

\* C24: the body of a REQUEST_ALL_CACHED is parsed up to the first entry without
\* a terminating NUL byte: the ids before it are the exclusion set, that entry
\* and what follows contribute no id, and the command is not failed.
C24_UnterminatedEntryDropped ==
    (Returned("CMD_REQ_ALL_CACHED") /\ "excludes" \in DOMAIN lastCmd.out) =>
        /\ lastCmd.err = NoErr
        /\ lastCmd.out.excludes = TerminatedIds(lastCmd.cmd.Message.Body)

\* a sink command that pushes a request, given the sinks it arrived with
PushesTo(a) ==
    IF a.cmd.Type = "CMD_FWD_REQ" /\ a.fwdChan # "nil" /\ Len(a.cmd.Params) >= 2
    THEN "fwd"
    ELSE IF a.cmd.Type = "CMD_SUBSCRIPTION" /\ a.subChan # "nil" /\ HasHeader(a.cmd)
            /\ a.cmd.Params[1] \in {"0", "1"}
    THEN "sub" ELSE "none"

\* the commands that push, of the commands that arrived, in wire order
RECURSIVE Pushing(_)
Pushing(as) ==
    IF as = <<>> THEN <<>>
    ELSE IF PushesTo(Head(as)) = "none" THEN Pushing(Tail(as))
    ELSE <<[sink |-> PushesTo(Head(as)), cmd |-> Head(as).cmd]>> \o Pushing(Tail(as))

\* the request received is the request of the command
RequestOf(cmd, req) ==
    IF cmd.Type = "CMD_FWD_REQ" THEN req.Receiver = cmd.Params[2]
    ELSE req.Params = cmd.Message.Header /\ req.Subscribe = (cmd.Params[1] = "1")

Pending == dispatch.pc \in {"push", "subscribe"}

\* C25: a push to a sink blocks until the consumer accepts: while it is pending
\* ProcessCommand does not return and no later command takes effect (none
\* arrives, no setting changes); the sinks have received, in wire order, one
\* request for each valid FORWARD_REQUEST / SUBSCRIPTION that returned, the
\* one being pushed is the next; and when the consumers accept every request,
\* every push returns.
C25_PushBlocksAndKeepsOrder ==
    /\ [][Pending =>
            /\ arrived' = arrived
            /\ visible' = visible
            /\ (lastCmd' # lastCmd \/ dispatch' # dispatch) =>
                   /\ Len(sunk') = Len(sunk) + 1
                   /\ dispatch' = Ready
                   /\ lastCmd' = [cmd |-> dispatch.cmd, err |-> NoErr]]_vars
    /\ [](LET ps == Pushing(arrived)
          IN /\ Len(ps) = Len(sunk) + (IF Pending THEN 1 ELSE 0)
             /\ \A i \in DOMAIN sunk :
                   sunk[i].sink = ps[i].sink /\ RequestOf(ps[i].cmd, sunk[i].req)
             /\ Pending => dispatch.cmd = ps[Len(ps)].cmd)
    /\ (Pending ~> (~Pending /\ Len(sunk) = Len(Pushing(arrived))))

\* a subscribe request, then a forward request have been received, the third
\* command between them was not valid
C25_TwoOfThreeSunk ==
    /\ Len(arrived) = 3 /\ Len(sunk) = 2
    /\ sunk[1].sink = "sub" /\ sunk[2].sink = "fwd"
    /\ arrived[2].cmd.Type = "CMD_SUBSCRIPTION"
    /\ dispatch = Ready

\* the step belongs to a SETTING command: it arrives, or stores the second
\* threshold, or the fields
InSetting ==
    \/ dispatch.pc \in {"compress", "fields"}
    \/ dispatch = Ready /\ (dispatch'.pc = "compress" \/ Returning("CMD_SETTING"))

Thresholds == <<digestThreshold, compressThreshold, digestFields>>

AllSettings == <<digestThreshold, compressThreshold, visible, digestFields>>

\* C26: digestThreshold, compressThreshold, visible and digestFields change only
\* in the steps of a SETTING or SET_VISIBILITY command: SETTING never changes
\* visible, SET_VISIBILITY changes only visible, and SendMessage, the setters of
\* the cache and the sinks and the SUBSCRIPTION, FORWARD_REQUEST,
\* MESSAGE_RETRIEVE and REQUEST_ALL_CACHED commands leave all four unchanged.
C26_OnlySettingCommandsChangeSettings ==
    /\ [][Thresholds' # Thresholds => (InSetting /\ visible' = visible)]_vars
    /\ [][visible' # visible =>
             (dispatch = Ready /\ Returning("CMD_SET_VISIBILITY")
                /\ Thresholds' = Thresholds)]_vars
    /\ [][(sender' # sender \/ lastSend' # lastSend) => AllSettings' = AllSettings]_vars
    /\ [][(mcache' # mcache \/ fwdChan' # fwdChan \/ subChan' # subChan) =>
             AllSettings' = AllSettings]_vars
    /\ [][(dispatch.pc \in {"push", "subscribe", "get"}
             \/ dispatch'.pc \in {"push", "subscribe", "get"}) =>
             AllSettings' = AllSettings]_vars
    /\ [][(\E t \in {"CMD_SUBSCRIPTION", "CMD_FWD_REQ", "CMD_MSG_RETRIEVE",
                      "CMD_REQ_ALL_CACHED"} : Returning(t)) =>
             AllSettings' = AllSettings]_vars

\* the peer has changed the thresholds and hidden the connection; since then a
\* message was sent, both sinks received a request and the cache was asked
C26_SettingsKeptThroughTraffic ==
    /\ digestThreshold = 3 /\ compressThreshold = 2 /\ visible = 0
    /\ digestFields = <<"title">>
    /\ lastSend.op = "SendMessage" /\ lastSend.d = 3
    /\ forwarded # NoRequest /\ Len(sunk) = 1
    /\ mcache = "redis"
    /\ Returned("CMD_REQ_ALL_CACHED")

\* the (service, username, id) triples the cache has been called with
Keyed ==
    Cached \cup { <<call[c].service, call[c].user, call[c].id>> :
                     c \in { x \in Callers : call[x].op # "idle" } }

\* C27: the store key is injective in (service, username, id) for the values the
\* cache operations are called with, so that a Get for one identity never returns
\* a message cached for another, and a message cached for ever is in the store
\* until a retrieve-and-delete is called for its own identity and id.
C27_KeysKeepIdentitiesApart ==
    /\ \A t \in Keyed, u \in Keyed :
          msgKey(t[1], t[2], t[3]) = msgKey(u[1], u[2], u[3]) => t = u
    /\ (lastRet.op = "Get" /\ ~IsNil(lastRet.msg)) =>
          \E t \in Keyed :
             t[3] = lastRet.msg.Id /\ t[1] = lastRet.service /\ t[2] = lastRet.user
    /\ \A id \in DOMAIN orig :
          (orig[id].ttl <= 0 /\ ~DelCalled(<<orig[id].service, orig[id].user, id>>)) =>
             Live(store, msgKey(orig[id].service, orig[id].user, id))

\* the lists of digest fields that were configured as a whole
WholeLists ==
    {<<>>} \cup { SubSeq(cmd.Params, 3, Len(cmd.Params)) : cmd \in LockSettingCmds }

\* the digest fields before and after the SETTING that is being processed
BeforeOrAfter ==
    {digestFields} \cup (IF "was" \in DOMAIN dispatch THEN {dispatch.was[3]} ELSE {})

\* the values stored in the thresholds
StoredThresholds ==
    {-1, 512} \cup { Atoi(cmd.Params[i]).val : cmd \in LockSettingCmds, i \in 1..2 }

\* C28: a digest built while a SETTING replaces the digest fields is filtered by
\* a list that was configured as a whole, the one before or the one after the
\* replacement, never by a list that is being filled; the sender and the
\* dispatcher are never both between Lock and Unlock; and the thresholds a
\* sender loads are values that were stored.
C28_DigestFieldsNeverPartial ==
    /\ [][(sender.pc = "range" /\ sender'.pc = "idle") =>
             /\ sender.fields \in BeforeOrAfter \cap WholeLists
             /\ written'.cmd.Message =
                   (LET h == DigestHeader(sender.fields, sender.msg, sender.extra,
                                          NoHeader)
                    IN IF DOMAIN h # {} THEN [NewMessage EXCEPT !.Header = h]
                       ELSE NilMsg)]_vars
    /\ [](sender.pc = "range" =>
             (digestFielsLock = "sender" /\ digestFields = sender.fields))
    /\ [](dispatch.pc = "fill" => digestFielsLock = "dispatch")
    /\ []("d" \in DOMAIN sender => sender.d \in StoredThresholds)
    /\ [](lastSend.op = "SendMessage" => lastSend.c \in StoredThresholds)

\* a digest of the fields of list A has been written while the dispatcher is
\* filling list B
C28_DigestOfOldListDuringFill ==
    /\ dispatch.pc = "fill" /\ dispatch.i = 2
    /\ lastSend.op = "SendMessage"
    /\ lastSend.fields = <<"title">>
    /\ sender.pc = "write" /\ sender.sendDigest

\* C29: a SETTING command is all-or-nothing: when ProcessCommand returns a
\* protocol error for it, digestThreshold, compressThreshold and digestFields
\* are as they were when the command arrived.
C29_RejectedSettingChangesNothing ==
    [][(Returning("CMD_SETTING") /\ lastCmd'.err # NoErr) =>
          Settings' = (IF dispatch.pc = "compress" THEN dispatch.was ELSE Settings)]_vars

\* C30: after a SETTING with the decimal integer v as param[0] has been accepted,
\* SendMessage digests a message of size sz iff v >= 0 and v < sz, whatever the
\* magnitude of v.
C30_ThresholdUsedIsTheOneSent ==
    [][(/\ sender = Ready /\ sender'.pc = "write"
        /\ dispatch = Ready
        /\ "err" \in DOMAIN lastCmd
        /\ lastCmd.cmd.Type = "CMD_SETTING" /\ lastCmd.err = NoErr
        /\ lastCmd.cmd.Params[1] # "") =>
          LET v == AtoiWide(lastCmd.cmd.Params[1])
          IN sender'.sendDigest <=> (~v.neg /\ v.hi = 0 /\ v.lo < sender'.sz)]_vars

\* C31: Set keeps an entry without expiry exactly when its TTL is <= 0; for every
\* TTL > 0, a TTL shorter than one second included, the entry is stored without
\* error with a strictly positive expiry, and Get returns it until that expiry
\* has elapsed.
C31_EveryPositiveTtlStoredWithExpiry ==
    /\ \A c \in Callers :
          (call[c].op = "CacheMessage" /\ Replied(c)) =>
              LET r == call[c]
                  key == msgKey(r.service, r.user, r.id)
              IN /\ SetResult(replies[c]) = NoErr
                 /\ Live(store, key) =>
                        (r.ttl <= 0 <=> store[key].expireAt = 0)
                 /\ (r.ttl > 0 /\ Live(store, key)) => store[key].expireAt > r.at
                 /\ (r.ttl <= 0 \/ now = r.at) => Live(store, key)
    /\ (lastRet.op = "Get" /\ lastRet.id \in DOMAIN orig) =>
          \/ Expired(lastRet.id)
          \/ ~IsNil(lastRet.msg) /\ lastRet.err = NoErr

\* the keys a digest had to resolve: configured digest fields that occur both
\* in the message's header and in the extra map
Overlap(send) == FieldsOf(send) \cap DOMAIN send.msg.Header \cap DOMAIN send.extra

\* C32: when a configured digest field occurs both in the message's header and
\* in the extra map, the digest's auxiliary header gives it the value of the
\* extra map, whatever the order of the configured fields.
C32_ExtraOverridesHeader ==
    (lastSend.op = "SendMessage" /\ IsDigest(lastSend.frame)) =>
        \A k \in Overlap(lastSend) :
            /\ ~IsNil(lastSend.frame.cmd.Message)
            /\ k \in DOMAIN lastSend.frame.cmd.Message.Header
            /\ lastSend.frame.cmd.Message.Header[k] = lastSend.extra[k]

\* a digest was written with fields configured in an order that ends with a
\* key on which the header and the extra map disagree, and begins with another
C32_SharedKeyLastOfSeveral ==
    /\ lastSend.op = "SendMessage"
    /\ IsDigest(lastSend.frame)
    /\ Len(lastSend.fields) >= 2
    /\ \E k \in Overlap(lastSend) :
          /\ lastSend.fields[1] # k
          /\ Last(lastSend.fields) = k
          /\ lastSend.msg.Header[k] # lastSend.extra[k]
          /\ lastSend.frame.cmd.Message.Header[k] = lastSend.extra[k]

\* the step is a call of ProcessCommand with a command of this type that
\* returns at once
Dropping(type) == dispatch = Ready /\ Returning(type)

\* nothing but the record of the call itself is different after the step
NoEffect ==
    /\ AllSettings' = AllSettings
    /\ forwarded' = forwarded
    /\ written' = written
    /\ cacheVars' = cacheVars
    /\ <<fwdChan, subChan, mcache>>' = <<fwdChan, subChan, mcache>>

\* C33: a command whose sink or cache is not configured is dropped without error
\* and without effect.  With no forward sink a FORWARD_REQUEST with at least 2
\* params returns no error, pushes nothing and leaves the command's message as
\* it was; with no subscribe sink every SUBSCRIPTION, well-formed or malformed,
\* returns no error and pushes nothing; with no cache REQUEST_ALL_CACHED returns
\* no error and writes nothing; in all three cases the settings are unchanged.
C33_UnconfiguredCommandDropped ==
    /\ [](/\ dispatch.pc = "push" => fwdChan # "nil"
          /\ dispatch.pc = "subscribe" => subChan # "nil"
          /\ dispatch.pc = "sendall" => mcache # "nil")
    /\ [][(Dropping("CMD_FWD_REQ") /\ fwdChan = "nil"
             /\ Len(lastCmd'.cmd.Params) >= 2) =>
            /\ lastCmd'.err = NoErr
            /\ lastCmd'.message = lastCmd'.cmd.Message
            /\ sunk' = sunk
            /\ NoEffect]_vars
    /\ [][(Dropping("CMD_SUBSCRIPTION") /\ subChan = "nil") =>
            (lastCmd'.err = NoErr /\ sunk' = <<>> /\ NoEffect)]_vars
    /\ [][(Dropping("CMD_REQ_ALL_CACHED") /\ mcache = "nil") =>
            /\ lastCmd'.err = NoErr
            /\ lastCmd'.out.frames = <<>>
            /\ sunk' = sunk
            /\ NoEffect]_vars
    /\ [][(dispatch = Ready /\ dispatch' # Ready) =>
            /\ dispatch'.cmd.Type = "CMD_FWD_REQ" => fwdChan # "nil"
            /\ dispatch'.cmd.Type = "CMD_SUBSCRIPTION" => subChan # "nil"
            /\ dispatch'.cmd.Type = "CMD_REQ_ALL_CACHED" => mcache # "nil"]_vars

\* with settings that are not those of a new connection and no sink configured,
\* a FORWARD_REQUEST with 2 params and a message of the peer has returned no
\* error and left the message and the sink's history as they were
C33_ForwardDroppedUnstamped ==
    /\ Returned("CMD_FWD_REQ")
    /\ fwdChan = "nil"
    /\ subChan = "nil"
    /\ Len(lastCmd.cmd.Params) >= 2
    /\ lastCmd.err = NoErr
    /\ ~IsNil(lastCmd.cmd.Message)
    /\ lastCmd.message = lastCmd.cmd.Message
    /\ lastCmd.message.Sender = "eve"
    /\ forwarded = NoRequest
    /\ digestThreshold = 3
    /\ visible = 0

\* the flag a command carries: its first param, when that is "0" or "1"
HasFlag(cmd) == Len(cmd.Params) >= 1 /\ cmd.Params[1] \in {"0", "1"}

\* C13: Visible() is true at first; each SET_VISIBILITY whose first param is "1"
\* or "0" makes it that value, and nothing else changes it: a SET_VISIBILITY
\* whose first param is any other string returns no error and leaves the flag
\* as it was.
C13_VisibleIsLastFlag ==
    /\ Visible
    /\ [][(lastCmd' # lastCmd /\ lastCmd'.cmd.Type = "CMD_SET_VISIBILITY") =>
              IF HasFlag(lastCmd'.cmd)
              THEN /\ (visible' > 0) <=> (lastCmd'.cmd.Params[1] = "1")
                   /\ lastCmd'.err = NoErr
              ELSE /\ visible' = visible
                   /\ Len(lastCmd'.cmd.Params) >= 1 => lastCmd'.err = NoErr]_vars
    /\ [][visible' # visible =>
              (lastCmd'.cmd.Type = "CMD_SET_VISIBILITY" /\ HasFlag(lastCmd'.cmd))]_vars

\* the connection was hidden, and a SET_VISIBILITY "2" has left it hidden
C13_OtherValueIgnored ==
    /\ Returned("CMD_SET_VISIBILITY")
    /\ lastCmd.cmd.Params = <<"2">>
    /\ lastCmd.err = NoErr
    /\ ~Visible

\* ------------------------------------- paired connection (proto): specification

\* the messages written: one as the tests build it, one with no header and an id
ProtoMsgs ==
    { MkMsg([k \in {"aaa", "aa"} |-> IF k = "aaa" THEN "hello" ELSE "hell"], <<1, 2>>),
      [MkMsg(NoHeader, <<3>>) EXCEPT !.Id = "5"] }

\* Key exchange, authentication, and messages written and read at both ends
NextProto ==
    \/ \E secret \in Secrets :
          clientKeyExchange(secret) /\ UNCHANGED notProto
    \/ serverKeyExchange /\ UNCHANGED notProto
    \/ Dial /\ UNCHANGED notProto
    \/ AuthConn /\ UNCHANGED notProto
    \/ \E e \in Ends, msg \in ProtoMsgs, compress \in BOOLEAN :
          /\ Len(sent[Outgoing(e)]) < MaxMsgs
          /\ WriteMessage(e, msg, compress)
          /\ UNCHANGED notProto
    \/ \E e \in Ends : ReadMessage(e) /\ UNCHANGED notProto

\* a fresh transport connection: either key at each end, any of the credentials
InitProto ==
    /\ InitCache
    /\ NewConn("srv", "usr")
    /\ SinksAtRest
    /\ \E sk \in KeyPairs, ck \in KeyPairs, cr \in DialedWith : NewPair(sk, ck, cr)

SpecProto == InitProto /\ [][NextProto]_vars

\* ------------------------------------------ paired connection (proto): claims

Paired == peer.client.pc = "open" /\ peer.server.pc = "open"

AuthJudged == peer.server.keys # NoKeys /\ peer.server.pc # "keyed"

\* C7: when the authentication frame carries a wrong token, a wrong username or a
\* wrong service, server-side authentication fails, and with one and the same
\* outcome: the authentication error, the connection closed, no Connection value,
\* and nothing written to the peer.
C7_AuthFailsUniformly ==
    (AuthJudged /\ dialed # ValidCredentials) =>
        /\ peer.server.pc = "closed"
        /\ peer.server.err = ErrAuthFail
        /\ IsNil(peer.server.conn)
        /\ wire.s2c = <<>>
        /\ sent.s2c = <<>>

C7_WrongServiceRejected ==
    /\ AuthJudged
    /\ dialed.service # ValidCredentials.service
    /\ dialed.username = ValidCredentials.username
    /\ dialed.token = ValidCredentials.token
    /\ peer.server.pc = "closed"

====
